---------------------------- MODULE Spec2Model ----------------------------
(***************************************************************************)
(* SKU normalisation and grouping engine of the WooCommerce product sync.  *)
(*                                                                         *)
(* A string is a sequence of one-character strings, so that the regular    *)
(* expressions and the str methods of the Python source are computed       *)
(* character by character.  Python's None is the value None below.         *)
(***************************************************************************)
EXTENDS Integers, Sequences, FiniteSets, TLC

VARIABLES
    n_sku,      \* normalize_sku: the raw SKU handed to it
    n_res,      \* normalize_sku: its result for n_sku
    n_prev,     \* normalize_sku: its result for the spelling n_sku was edited from
    n_edit,     \* the kind of difference between that spelling and n_sku
    n_count,    \* how many respellings n_sku is away from the first spelling
    p_sku,      \* parse_sku: the raw SKU handed to it
    p_first,    \* parse_sku: base and var before the deep parse
    p_res,      \* parse_sku: its result for p_sku
    g_rows,     \* the spreadsheet rows df[start_row:end_row], each with its SKU cell
    g_limit,    \* sync_from_xlsx: the limit argument, 0 for None
    g_pc,       \* sync_from_xlsx: "group", "sync" or "done"
    g_idx,      \* group_rows_by_base_sku: the row the loop is at
    g_groups,   \* the groups dict, in insertion order
    g_calls,    \* the base SKUs create_product_from_group was called with
    g_dry,      \* ProductSyncV2.dry_run
    g_folder,   \* the folder map scan_image_folders returned
    g_store,    \* the products of the store, a product's id being its place
    g_net,      \* the requests each call of create_product_from_group sent, in order
    g_created,  \* ProductSyncV2.created_products
    g_skipped,  \* ProductSyncV2.skipped_products
    g_failed,   \* ProductSyncV2.failed_products
    g_success,  \* sync_from_xlsx: success
    r_sku,      \* find_images_for_sku: the raw SKU
    r_map,      \* find_images_for_sku: the folder map, in insertion order
    r_pc,       \* find_images_for_sku: "ready" before the call, "done" after
    r_out,      \* find_images_for_sku: the image paths returned
    s_exists,   \* scan_image_folders: os.path.exists(images_dir)
    s_items,    \* scan_image_folders: the items of images_dir as os.listdir gives them
    s_pc,       \* scan_image_folders: "scan" in the loop, "done" after the return
    s_idx,      \* scan_image_folders: the item the loop is at
    s_folders   \* scan_image_folders: the folders dict, in insertion order

normVars == <<n_sku, n_res, n_prev, n_edit, n_count>>
parseVars == <<p_sku, p_first, p_res>>
groupVars == <<g_rows, g_limit, g_pc, g_idx, g_groups, g_calls>>
syncVars == <<g_dry, g_folder, g_store, g_net, g_created, g_skipped, g_failed, g_success>>
scanVars == <<s_exists, s_items, s_pc, s_idx, s_folders>>
resolveVars == <<r_sku, r_map, r_pc, r_out, s_exists, s_items, s_pc, s_idx, s_folders>>
vars == <<n_sku, n_res, n_prev, n_edit, n_count, p_sku, p_first, p_res,
          g_rows, g_limit, g_pc, g_idx, g_groups, g_calls,
          g_dry, g_folder, g_store, g_net, g_created, g_skipped, g_failed, g_success,
          r_sku, r_map, r_pc, r_out,
          s_exists, s_items, s_pc, s_idx, s_folders>>

-----------------------------------------------------------------------------
(* Characters and strings *)

\* Python's None; no string over single characters equals it.
None == <<"None">>

\* The value of a variable an operation has not written yet.
NotRun == <<"NotRun">>

UpperSeq == <<"A","B","C","D","E","F","G","H","I","J","K","L","M",
              "N","O","P","Q","R","S","T","U","V","W","X","Y","Z">>

LowerSeq == <<"a","b","c","d","e","f","g","h","i","j","k","l","m",
              "n","o","p","q","r","s","t","u","v","w","x","y","z">>

DigitSeq == <<"0","1","2","3","4","5","6","7","8","9">>

Range(f) == {f[i] : i \in DOMAIN f}

\* [A-Z]
IsUpper(c) == c \in Range(UpperSeq)

IsLower(c) == c \in Range(LowerSeq)

\* \d
IsDigit(c) == c \in Range(DigitSeq)

\* \s, and the characters str.split() and str.strip() take for whitespace
IsSpace(c) == c = " "

\* str.upper() on one character
UpperChar(c) ==
    IF IsLower(c) THEN UpperSeq[CHOOSE i \in DOMAIN LowerSeq : LowerSeq[i] = c] ELSE c

LowerChar(c) ==
    IF IsUpper(c) THEN LowerSeq[CHOOSE i \in DOMAIN UpperSeq : UpperSeq[i] = c] ELSE c

\* str.upper()
Upper(s) == [i \in DOMAIN s |-> UpperChar(s[i])]

\* A string literal as a sequence of characters.
Chars(str) == [i \in 1..Len(str) |-> SubSeq(str, i, i)]

\* s[a-1:b] of Python: the characters at the 1-based positions a..b
Slice(s, a, b) == IF a > b THEN <<>> ELSE SubSeq(s, a, b)

\* The characters of s at the positions keep, in order.
KeepAt(s, keep) ==
    LET F[i \in 0..Len(s)] ==
            IF i = 0 THEN <<>>
            ELSE IF i \in keep THEN Append(F[i - 1], s[i]) ELSE F[i - 1]
    IN F[Len(s)]

\* str.strip()
Strip(s) ==
    LET solid == {i \in DOMAIN s : ~IsSpace(s[i])}
    IN IF solid = {} THEN <<>>
       ELSE Slice(s, CHOOSE i \in solid : \A j \in solid : i <= j,
                     CHOOSE i \in solid : \A j \in solid : i >= j)

\* ' '.join(s.split()): leading and trailing whitespace dropped, every inner
\* run of whitespace turned into one space
CollapseSpaces(s) ==
    LET t == Strip(s)
    IN KeepAt(t, {i \in DOMAIN t : ~IsSpace(t[i]) \/ ~IsSpace(t[i - 1])})

\* str.replace(a, b) for single characters a and b
ReplaceChar(s, a, b) == [i \in DOMAIN s |-> IF s[i] = a THEN b ELSE s[i]]

\* str.replace(' ', '', 1): only the first space goes.
RemoveSpaces_firstOnly(s) ==
    KeepAt(s, {i \in DOMAIN s : s[i] # " " \/ \E j \in 1..i - 1 : s[j] = " "})

\* str.replace(' ', '')
RemoveSpaces(s) == KeepAt(s, {i \in DOMAIN s : s[i] # " "})

\* re.sub(r'\s*-\s*', '-', s): a run of whitespace that touches a dash goes
SpacesAroundDash(s) ==
    {i \in DOMAIN s : /\ IsSpace(s[i])
                      /\ \E d \in DOMAIN s :
                            /\ s[d] = "-"
                            /\ \A j \in (IF i < d THEN i..d - 1 ELSE d + 1..i) :
                                  IsSpace(s[j])}

StripAroundDash(s) == KeepAt(s, DOMAIN s \ SpacesAroundDash(s))


\* The last position of the longest run of characters satisfying Is that
\* starts at position from (from - 1 when there is none): a greedy X*.
RunEnd(s, from, Is(_)) ==
    LET stops == {j \in from..Len(s) : ~Is(s[j])}
    IN IF stops = {} THEN Len(s) ELSE (CHOOSE j \in stops : \A k \in stops : j <= k) - 1

\* The match of ^(WP[A-Z]+)\s*(\d+) at the start of s.  Every run is followed
\* by a character of another class, so each is the longest one: pe ends the
\* prefix, ds..de are the digits.
ProductCode(s) ==
    LET pe == RunEnd(s, 1, IsUpper)
        se == RunEnd(s, pe + 1, IsSpace)
        de == RunEnd(s, se + 1, IsDigit)
    IN [ok |-> /\ Len(s) >= 3
               /\ s[1] = "W"
               /\ s[2] = "P"
               /\ pe >= 3
               /\ de >= se + 1,
        pe |-> pe, ds |-> se + 1, de |-> de]

\* Group 3 of ^(WP[A-Z]+)\s*(\d+)\s+(.+)$ when the digits end at de: \s+ is
\* greedy and gives back one character when nothing follows the whitespace.
SpaceRemainder(s, de) ==
    LET sp == RunEnd(s, de + 1, IsSpace)
    IN IF sp = Len(s) THEN Slice(s, Len(s), Len(s)) ELSE Slice(s, sp + 1, Len(s))

\* ^...\s+(.+)$ matches after the digits: whitespace, then one character more
SpaceFollows(s, de) == Len(s) >= de + 2 /\ IsSpace(s[de + 1])

-----------------------------------------------------------------------------
(* image_mapping.normalize_sku *)

NoneResult == [normalized |-> None, base_sku |-> None, variation |-> None]

\* sku = ' '.join(sku.split())
NormalizeWhitespace(s) == CollapseSpaces(s)

\* The slash conversion left out.
SlashToDash_skipped(s) == s

\* sku = sku.replace('/', '-')
SlashToDash(s) == ReplaceChar(s, "/", "-")

\* sku = re.sub(r'\s*-\s*', '-', sku)
TightenDashes(s) == StripAroundDash(s)

\* f"{base_sku}-{variation}"
JoinKey(base_sku, variation) == base_sku \o <<"-">> \o variation

\* base_sku = f"{prefix}{number}" for the product code m of sku
BaseSku(sku, m) == Slice(sku, 1, m.pe) \o Slice(sku, m.ds, m.de)

\* return normalized, base_sku, variation of Pattern 1 and Pattern 2
WithVariation(base_sku, variation) ==
    [normalized |-> JoinKey(base_sku, variation),
     base_sku |-> base_sku, variation |-> variation]

\* return base_sku, base_sku, None of Pattern 3, and the fallback's
\* return normalized, normalized, None
WithoutVariation(key) == [normalized |-> key, base_sku |-> key, variation |-> None]

\* Pattern 1, 2, 3 and the fallback, on the cleaned SKU whose product code
\* match is m
ApplyPatterns(sku, m) ==
    IF m.ok /\ Len(sku) >= m.de + 2 /\ sku[m.de + 1] = "-"
    THEN WithVariation(BaseSku(sku, m), Strip(Slice(sku, m.de + 2, Len(sku))))
    ELSE IF m.ok /\ SpaceFollows(sku, m.de)
    THEN WithVariation(BaseSku(sku, m), Strip(SpaceRemainder(sku, m.de)))
    ELSE IF m.ok /\ m.de = Len(sku)
    THEN WithoutVariation(BaseSku(sku, m))
    ELSE WithoutVariation(RemoveSpaces(sku))

MatchPatterns(sku) == ApplyPatterns(sku, ProductCode(sku))

normalize_sku(raw_sku) ==
    IF raw_sku = None \/ raw_sku = <<>> \/ Strip(raw_sku) = <<>>
    THEN NoneResult
    ELSE MatchPatterns(TightenDashes(SlashToDash(NormalizeWhitespace(Strip(raw_sku)))))

-----------------------------------------------------------------------------
(* config.parse_sku *)

\* s[j..] matches [\s]*-[\s]*(\d+)$
DashTail(s, j) ==
    \E d \in j..Len(s) :
        /\ s[d] = "-"
        /\ \A i \in j..d - 1 : IsSpace(s[i])
        /\ LET g == RunEnd(s, d + 1, IsSpace) + 1
           IN g <= Len(s) /\ \A i \in g..Len(s) : IsDigit(s[i])

\* DashSplits with (.*?) for (.+?): group 1 may be empty.
DashSplits_emptyGroup(s) == {k \in 0..Len(s) : DashTail(s, k + 1)}

\* The lengths group 1 of ^(.+?)[\s]*-[\s]*(\d+)$ can have
DashSplits(s) == {k \in 1..Len(s) : DashTail(s, k + 1)}

\* (\d+)$: the digits that end s
TrailingDigits(s) ==
    LET stops == {j \in DOMAIN s : ~IsDigit(s[j])}
    IN IF stops = {} THEN s
       ELSE Slice(s, (CHOOSE j \in stops : \A k \in stops : j >= k) + 1, Len(s))

\* The dash pattern with its splits ks, else the space pattern with the
\* product code m, else the whole SKU
ApplyParse(sku, ks, m) ==
    IF ks # {}
    THEN \* .+? is lazy: the shortest group 1
         [base |-> Strip(Slice(sku, 1, CHOOSE k \in ks : \A j \in ks : k <= j)),
          var |-> Strip(TrailingDigits(sku))]
    ELSE IF m.ok /\ SpaceFollows(sku, m.de)
    THEN [base |-> Strip(Slice(sku, 1, m.de)),
          var |-> Strip(SpaceRemainder(sku, m.de))]
    ELSE [base |-> sku, var |-> None]

FirstParse(sku) == ApplyParse(sku, DashSplits(sku), ProductCode(sku))

\* deep_match = re.match(r'^(WP[A-Z]+\s*\d+)\s+(.+)$', base) for the product
\* code m of r.base
DeepMatches(r, m) ==
    r.base # <<>> /\ " " \in Range(r.base) /\ m.ok /\ SpaceFollows(r.base, m.de)

\* DeepParse left out.
DeepParse_skipped(r) == r

\* DeepParse without "if var is None": the descriptor always becomes the var.
DeepParse_overwrites(r) ==
    IF DeepMatches(r, ProductCode(r.base))
    THEN [base |-> Strip(Slice(r.base, 1, ProductCode(r.base).de)),
          var |-> Strip(SpaceRemainder(r.base, ProductCode(r.base).de))]
    ELSE r

\* Deep parse: a base that still holds a space after the product code
DeepParse(r) ==
    IF DeepMatches(r, ProductCode(r.base))
    THEN [base |-> Strip(Slice(r.base, 1, ProductCode(r.base).de)),
          var |-> IF r.var = None
                  THEN Strip(SpaceRemainder(r.base, ProductCode(r.base).de))
                  ELSE r.var]
    ELSE r

parse_sku(raw_sku) ==
    IF raw_sku = None \/ raw_sku = <<>> \/ Strip(raw_sku) = <<>>
    THEN [base |-> None, var |-> None]
    ELSE DeepParse(FirstParse(CollapseSpaces(Strip(raw_sku))))

-----------------------------------------------------------------------------
(* Raw SKUs: the spellings a spreadsheet cell can hold *)

\* The pieces raw SKUs are put together from.
SkuParts == {Chars("WPJ"), Chars("01"), Chars(" "), Chars("-"), Chars("B")}

Concat(ps) ==
    LET F[i \in 0..Len(ps)] == IF i = 0 THEN <<>> ELSE F[i - 1] \o ps[i]
    IN F[Len(ps)]

\* Every string of at most n pieces.
SkuStrings(n) == {Concat(ps) : ps \in UNION {[1..k -> SkuParts] : k \in 0..n}}

\* The SKUs the docstrings of parse_sku and normalize_sku give.
DocumentedSkus ==
    {Chars("WPJF 001-127"), Chars("WPJF 001 -120"), Chars("WPMF001 ROSE -39"),
     Chars("WPJF 0012 BLUE MEDIUM"), Chars("WPJF 008- 141"), Chars("WPCHF001 /C1"),
     Chars("WPJF 0051  FASHION"), Chars("WPJF 0015")}

\* s is empty or whitespace only.
IsBlank(s) == \A i \in DOMAIN s : s[i] = " "

\* The results before normalize_sku and parse_sku have run.
NoNorm == [normalized |-> NotRun, base_sku |-> NotRun, variation |-> NotRun]

NoParse == [base |-> NotRun, var |-> NotRun]

IdleNorm ==
    /\ n_sku = NotRun
    /\ n_res = NoNorm
    /\ n_prev = NoNorm
    /\ n_edit = "none"
    /\ n_count = 0

IdleParse ==
    /\ p_sku = NotRun
    /\ p_first = NoParse
    /\ p_res = NoParse

IdleScan ==
    /\ s_exists = FALSE
    /\ s_items = <<>>
    /\ s_pc = "idle"
    /\ s_idx = 1
    /\ s_folders = <<>>

IdleResolve ==
    /\ r_sku = NotRun
    /\ r_map = <<>>
    /\ r_pc = "idle"
    /\ r_out = <<>>
    /\ IdleScan

IdleGroup ==
    /\ g_rows = <<>>
    /\ g_limit = 0
    /\ g_pc = "idle"
    /\ g_idx = 1
    /\ g_groups = <<>>
    /\ g_calls = <<>>
    /\ g_dry = FALSE
    /\ g_folder = <<>>
    /\ g_store = <<>>
    /\ g_net = <<>>
    /\ g_created = <<>>
    /\ g_skipped = <<>>
    /\ g_failed = <<>>
    /\ g_success = 0

-----------------------------------------------------------------------------
(* SpecParse: parse_sku on one raw SKU *)

MaxParseParts == 6

ParseInit ==
    /\ p_sku \in SkuStrings(MaxParseParts) \cup DocumentedSkus
    /\ p_first = NoParse
    /\ p_res = NoParse
    /\ IdleNorm
    /\ IdleGroup
    /\ IdleResolve

\* base, var = parse_sku(raw_sku)
Parse ==
    /\ p_res = NoParse
    /\ p_first' = (IF IsBlank(p_sku) THEN [base |-> None, var |-> None]
                   ELSE FirstParse(CollapseSpaces(Strip(p_sku))))
    /\ p_res' = parse_sku(p_sku)
    /\ UNCHANGED <<p_sku, normVars, groupVars, syncVars, resolveVars>>

ParseNext == Parse

SpecParse == ParseInit /\ [][ParseNext]_vars

-----------------------------------------------------------------------------
(* SpecNormalize: normalize_sku on a raw SKU and on other spellings of it *)

MaxNormParts == 4

MaxEdits == 1

NormInit ==
    /\ n_sku \in SkuStrings(MaxNormParts) \cup DocumentedSkus
    /\ n_res = NoNorm
    /\ n_prev = NoNorm
    /\ n_edit = "none"
    /\ n_count = 0
    /\ IdleParse
    /\ IdleGroup
    /\ IdleResolve

\* normalized, base_sku, variation = normalize_sku(raw_sku)
Normalize ==
    /\ n_res = NoNorm
    /\ n_res' = normalize_sku(n_sku)
    /\ UNCHANGED <<n_sku, n_prev, n_edit, n_count, parseVars, groupVars, syncVars, resolveVars>>

\* s with the character c put in front of position i
InsertAt(s, i, c) == Slice(s, 1, i - 1) \o <<c>> \o Slice(s, i, Len(s))

\* s with the character at position i replaced by c
SetAt(s, i, c) == [s EXCEPT ![i] = c]

\* The same SKU arrives in another spelling and is normalized.
Respell(kind, sku) ==
    /\ n_res # NoNorm
    /\ n_count < MaxEdits
    /\ n_sku' = sku
    /\ n_prev' = n_res
    /\ n_res' = normalize_sku(sku)
    /\ n_edit' = kind
    /\ n_count' = n_count + 1
    /\ UNCHANGED <<parseVars, groupVars, syncVars, resolveVars>>

\* A whitespace run is one space longer.
WidenSpace ==
    \E i \in DOMAIN n_sku :
        /\ n_sku[i] = " "
        /\ Respell("space", InsertAt(n_sku, i, " "))

\* A space stands before or after a dash.
PadDash ==
    \E i \in DOMAIN n_sku, after \in {0, 1} :
        /\ n_sku[i] = "-"
        /\ Respell("dash", InsertAt(n_sku, i + after, " "))

\* A slash stands where the dash stood, or a dash where the slash stood.
SwapSeparator ==
    \E i \in DOMAIN n_sku :
        /\ n_sku[i] \in {"-", "/"}
        /\ Respell("separator", SetAt(n_sku, i, IF n_sku[i] = "-" THEN "/" ELSE "-"))

\* A letter is in the other case.
SwapCase ==
    \E i \in DOMAIN n_sku :
        /\ IsUpper(n_sku[i]) \/ IsLower(n_sku[i])
        /\ Respell("case", SetAt(n_sku, i, IF IsUpper(n_sku[i]) THEN LowerChar(n_sku[i])
                                            ELSE UpperChar(n_sku[i])))

\* normalize_sku(normalized): the key is normalized again.
Renormalize ==
    /\ n_res # NoNorm
    /\ n_res.normalized # None
    /\ n_edit # "again"
    /\ n_sku' = n_res.normalized
    /\ n_prev' = n_res
    /\ n_res' = normalize_sku(n_res.normalized)
    /\ n_edit' = "again"
    /\ UNCHANGED <<n_count, parseVars, groupVars, syncVars, resolveVars>>

NormNext ==
    \/ Normalize
    \/ WidenSpace
    \/ PadDash
    \/ SwapSeparator
    \/ SwapCase
    \/ Renormalize

SpecNormalize == NormInit /\ [][NormNext]_vars

-----------------------------------------------------------------------------
(* Cell values: prices, size flags, families *)

\* The characters in the order of their code points.
CodePoints == <<" ", "-", ".", "/">> \o DigitSeq \o UpperSeq \o LowerSeq

\* ord(c), up to the order
Ord(c) == CHOOSE i \in DOMAIN CodePoints : CodePoints[i] = c

\* a < b on two str: at the first place they differ the character of a is the
\* smaller one, or a is a proper prefix of b.
StrLess(a, b) ==
    \E i \in 1..(Len(b)) :
        /\ \A j \in 1..(i - 1) : j <= Len(a) /\ a[j] = b[j]
        /\ i - 1 <= Len(a)
        /\ (i > Len(a) \/ Ord(a[i]) < Ord(b[i]))

\* The digit c as a number.
DigitValue(c) == (CHOOSE i \in DOMAIN DigitSeq : DigitSeq[i] = c) - 1

\* The number a run of digits spells, 0 for the empty run.
DigitsValue(s) ==
    LET F[i \in 0..Len(s)] == IF i = 0 THEN 0 ELSE 10 * F[i - 1] + DigitValue(s[i])
    IN F[Len(s)]

\* str(n) for n >= 0
RECURSIVE IntToChars(_)
IntToChars(n) ==
    IF n < 10 THEN <<DigitSeq[n + 1]>>
    ELSE IntToChars(n \div 10) \o <<DigitSeq[(n % 10) + 1]>>

\* The text is an unsigned decimal numeral: digits, with an optional point
\* and more digits.
IsDecimal(s) ==
    LET ie == RunEnd(s, 1, IsDigit)
    IN /\ ie >= 1
       /\ \/ ie = Len(s)
          \/ /\ ie + 1 <= Len(s)
             /\ s[ie + 1] = "."
             /\ RunEnd(s, ie + 2, IsDigit) = Len(s)

\* float(s) of a decimal numeral with at most three decimals, in thousandths.
FloatOf(s) ==
    LET ie == RunEnd(s, 1, IsDigit)
        frac == Slice(s, ie + 2, Len(s))
        pad == frac \o Slice(<<"0", "0", "0">>, 1, 3 - Len(frac))
    IN 1000 * DigitsValue(Slice(s, 1, ie)) + DigitsValue(pad)

\* round(price, 2), in hundredths; no cell lies halfway between two
\* hundredths.
Round2(thousandths) == (thousandths + 5) \div 10

\* str(x) of a float x with at most two decimals: '15.5', '19.99', '100.0'.
FloatStr(hundredths) ==
    LET whole == IntToChars(hundredths \div 100)
        c == hundredths % 100
    IN whole \o <<".">> \o
       (IF c % 10 = 0 THEN IntToChars(c \div 10)
        ELSE <<DigitSeq[(c \div 10) + 1], DigitSeq[(c % 10) + 1]>>)

\* float(v['price']) of a cleaned price, in hundredths.
PriceValue(price) == Round2(FloatOf(price))

\* ProductSyncV2.clean_price: None for an empty cell and for a cell float()
\* does not take, else the price rounded to two decimals, as a str.
clean_price(raw_price) ==
    IF raw_price = None THEN None
    ELSE IF ~IsDecimal(Strip(raw_price)) THEN None
    ELSE FloatStr(Round2(FloatOf(Strip(raw_price))))

\* config.SIZE_COLUMNS: the size label of each size column.
SIZE_COLUMNS ==
    [col \in 9..16 |->
        <<Chars("2-3"), Chars("3-4"), Chars("4-5"), Chars("6-7"),
          Chars("7-8"), Chars("9-10"), Chars("11-12"), Chars("13-14")>>[col - 8]]

\* pd.notna(value) and str(value).strip().upper() == 'X'
IsFlagged(value) == value # None /\ Upper(Strip(value)) = <<"X">>

\* ProductSyncV2.get_available_sizes: the labels of the flagged size columns,
\* in column order.
get_available_sizes(row) ==
    LET F[col \in 8..16] ==
            IF col = 8 THEN <<>>
            ELSE IF IsFlagged(row.sizes[col]) THEN Append(F[col - 1], SIZE_COLUMNS[col])
            ELSE F[col - 1]
    IN F[16]

-----------------------------------------------------------------------------
(* ProductSyncV2.group_rows_by_base_sku *)

MaxRows == 3

\* What the SKU cell of a row can hold; None is the empty cell (NaN).
SkuCells ==
    {None, Chars("  "),
     Chars("WPJF001-A"), Chars("WPJF001-B"), Chars("WPGR002"),
     Chars("WPJF 001-127"), Chars("WPJF 001 -120"), Chars("WPJF001-130")}

\* The size cells of a row: 'X' in the columns of flagged, nothing elsewhere.
SizeCells(flagged) == [col \in 9..16 |-> IF col \in flagged THEN <<"X">> ELSE None]

\* A spreadsheet row by its cells; None is the empty cell (NaN).
Row(sku, price, name, color, famille, tech_description, description, sizes) ==
    [sku |-> sku, price |-> price, name |-> name, color |-> color,
     famille |-> famille, tech_description |-> tech_description,
     description |-> description, sizes |-> sizes]

\* A row as the catalogue usually has it: name, price and one size, no color.
FullRow(sku) ==
    Row(sku, Chars("19.99"), Chars("Robe"), None, Chars("JUPE JEANS"), None, None,
        SizeCells({9}))

\* The rows of a run: every SKU cell, on a full row.
Rows == {FullRow(sku) : sku \in SkuCells}

\* pd.isna(raw_sku)
IsNa(cell) == cell = None

\* The entry appended to groups[base_sku] for the row at idx.
Variant(idx, row, var_code) ==
    [row_idx |-> idx,
     raw_sku |-> Strip(row.sku),
     var_code |-> var_code,
     color |-> IF row.color # None THEN row.color ELSE var_code,
     sizes |-> get_available_sizes(row),
     price |-> clean_price(row.price),
     name |-> row.name,
     famille |-> row.famille,
     tech_desc |-> IF row.tech_description # None THEN row.tech_description ELSE <<>>,
     description |-> IF row.description # None THEN row.description ELSE <<>>]

\* The position of base_sku among the keys of groups, 0 when it is no key.
GroupIndex(groups, base_sku) ==
    IF \E i \in DOMAIN groups : groups[i].base_sku = base_sku
    THEN CHOOSE i \in DOMAIN groups : groups[i].base_sku = base_sku
    ELSE 0

\* groups[base_sku] = [variant]: the list is replaced, not extended.
AppendVariant_overwrites(groups, base_sku, variant) ==
    IF GroupIndex(groups, base_sku) = 0
    THEN Append(groups, [base_sku |-> base_sku, variants |-> <<variant>>])
    ELSE [groups EXCEPT ![GroupIndex(groups, base_sku)].variants = <<variant>>]

\* A key that is already there moves to the end of the dict when it is
\* written again.
AppendVariant_reorders(groups, base_sku, variant) ==
    LET i == GroupIndex(groups, base_sku)
    IN IF i = 0
       THEN Append(groups, [base_sku |-> base_sku, variants |-> <<variant>>])
       ELSE Append(KeepAt(groups, DOMAIN groups \ {i}),
                   [groups[i] EXCEPT !.variants = Append(@, variant)])

\* groups[base_sku].append(variant) on a defaultdict(list): a new key goes
\* last, a known key keeps its place.
AppendVariant(groups, base_sku, variant) ==
    LET i == GroupIndex(groups, base_sku)
    IN IF i = 0
       THEN Append(groups, [base_sku |-> base_sku, variants |-> <<variant>>])
       ELSE [groups EXCEPT ![i].variants = Append(@, variant)]

\* One iteration of the loop over the rows.
GroupOneRow(groups, idx, row) ==
    IF IsNa(row.sku)
    THEN groups
    ELSE LET parsed == parse_sku(row.sku)
         IN IF parsed.base = None \/ parsed.base = <<>>
            THEN groups
            ELSE AppendVariant(groups, parsed.base, Variant(idx, row, parsed.var))


-----------------------------------------------------------------------------
(* image_mapping.find_images_for_sku *)

\* The place of key among the keys of folder_map, 0 when it is no key.
FolderIndex(folder_map, key) ==
    IF \E i \in DOMAIN folder_map : folder_map[i].key = key
    THEN CHOOSE i \in DOMAIN folder_map : folder_map[i].key = key
    ELSE 0

\* str.startswith
StartsWith(s, prefix) ==
    Len(prefix) <= Len(s) /\ Slice(s, 1, Len(prefix)) = prefix

\* Python's truth value of an optional string
Truthy(s) == s # None /\ s # <<>>

\* key = normalized.replace(' ', '').upper()
ExactKey(normalized) == Upper(RemoveSpaces(normalized))

\* key_no_space = f"{base_sku}-{variation.replace(' ', '')}".upper()
KeyNoSpace(base_sku, variation) == Upper(JoinKey(base_sku, RemoveSpaces(variation)))

\* The base-only lookup left out.
BaseOnlyMatch_skipped(folder_map, base_sku) == 0

\* if base_sku: base_key = base_sku.upper(); if base_key in folder_map
BaseOnlyMatch(folder_map, base_sku) ==
    IF Truthy(base_sku) THEN FolderIndex(folder_map, Upper(base_sku)) ELSE 0

\* for folder_key, folder_info in folder_map.items():
\*     if folder_key.startswith(base_sku.upper()): the first such folder
PrefixMatch(folder_map, base_sku) ==
    LET hits == {i \in DOMAIN folder_map :
                    StartsWith(folder_map[i].key, Upper(base_sku))}
    IN IF Truthy(base_sku) /\ hits # {}
       THEN CHOOSE i \in hits : \A j \in hits : i <= j
       ELSE 0

\* The first of the folders found by the four lookups, 0 when none is.
FirstMatch(exact, nospace, baseonly, prefix) ==
    IF exact # 0 THEN exact
    ELSE IF nospace # 0 THEN nospace
    ELSE IF baseonly # 0 THEN baseonly
    ELSE prefix

\* folder_map[key]['images'] of the folder at place i, [] for no folder
ImagesAt(folder_map, i) == IF i = 0 THEN <<>> ELSE folder_map[i].images

\* The cascade for the normalized SKU n.
Cascade(n, folder_map) ==
    IF ~Truthy(n.normalized)
    THEN <<>>
    ELSE ImagesAt(folder_map,
                  FirstMatch(FolderIndex(folder_map, ExactKey(n.normalized)),
                             IF Truthy(n.variation)
                             THEN FolderIndex(folder_map,
                                              KeyNoSpace(n.base_sku, n.variation))
                             ELSE 0,
                             BaseOnlyMatch(folder_map, n.base_sku),
                             PrefixMatch(folder_map, n.base_sku)))

find_images_for_sku(raw_sku, folder_map) ==
    IF ~Truthy(raw_sku) THEN <<>> ELSE Cascade(normalize_sku(raw_sku), folder_map)

-----------------------------------------------------------------------------
(* config.get_categories_for_famille *)

\* config.CATEGORY_MAPPING without its 'DEFAULT' entry, in the order of the
\* dict.
CATEGORY_MAPPING ==
    <<[key |-> Chars("PANTALON JEANS"), ids |-> <<296, 298, 307>>],
      [key |-> Chars("JUPE JEANS"), ids |-> <<296, 298, 310>>],
      [key |-> Chars("PANTALON COTTON"), ids |-> <<296, 298, 308>>],
      [key |-> Chars("T-SHIRT"), ids |-> <<296, 297, 301>>],
      [key |-> Chars("PULL"), ids |-> <<296, 297, 303>>],
      [key |-> Chars("SWEAT"), ids |-> <<296, 297, 305>>]>>

\* CATEGORY_MAPPING['DEFAULT']
DefaultCategories == <<296>>

\* sub in s
Contains(s, sub) ==
    \E i \in 1..(Len(s) - Len(sub) + 1) : Slice(s, i, i + Len(sub) - 1) = sub

get_categories_for_famille(famille) ==
    IF ~Truthy(famille) THEN DefaultCategories
    ELSE LET famille_upper == Strip(Upper(famille))
             exact == {i \in DOMAIN CATEGORY_MAPPING :
                          CATEGORY_MAPPING[i].key = famille_upper}
             partial == {i \in DOMAIN CATEGORY_MAPPING :
                            Contains(famille_upper, CATEGORY_MAPPING[i].key)}
         IN IF exact # {} THEN CATEGORY_MAPPING[CHOOSE i \in exact : TRUE].ids
            ELSE IF partial # {}
            THEN CATEGORY_MAPPING[CHOOSE i \in partial : \A j \in partial : i <= j].ids
            ELSE DefaultCategories

-----------------------------------------------------------------------------
(* ProductSyncV2.create_product_from_group: what it gathers from the variants *)

\* The first variant whose name is truthy, 0 when there is none.
FirstNamed(variants) ==
    LET named == {k \in DOMAIN variants : Truthy(variants[k].name)}
    IN IF named = {} THEN 0 ELSE CHOOSE k \in named : \A l \in named : k <= l

\* product_name after the loop over the variants: None when no name is truthy.
NameFromVariants(variants) ==
    IF FirstNamed(variants) = 0 THEN None
    ELSE Strip(variants[FirstNamed(variants)].name)

\* A group without a name is sent under its first raw SKU.
ProductName_fromSku(variants, store, existing) ==
    IF ~Truthy(NameFromVariants(variants)) THEN variants[1].raw_sku
    ELSE NameFromVariants(variants)

\* if not product_name and existing_product: product_name = existing_product['name']
\* The existing product is given by its place in the store, 0 for None.
ProductName(variants, store, existing) ==
    IF ~Truthy(NameFromVariants(variants)) /\ existing # 0
    THEN store[existing].name
    ELSE NameFromVariants(variants)

\* if color: a color of blanks counts.
HasColor_blank(v) == Truthy(v.color)

\* if color and str(color).strip()
HasColor(v) == Truthy(v.color) /\ Strip(v.color) # <<>>

\* all_colors after the loop: a new stripped color goes last.
AllColors(variants) ==
    LET F[k \in 0..Len(variants)] ==
            IF k = 0 THEN <<>>
            ELSE IF HasColor(variants[k])
                    /\ Strip(variants[k].color) \notin Range(F[k - 1])
            THEN Append(F[k - 1], Strip(variants[k].color))
            ELSE F[k - 1]
    IN F[Len(variants)]

\* all_sizes as the set the loop builds with update()
SizeUnion(variants) == UNION {Range(variants[k].sizes) : k \in DOMAIN variants}

\* The sort key (len(x), x) of a is smaller than that of b.
SizeKeyLess(a, b) == Len(a) < Len(b) \/ (Len(a) = Len(b) /\ StrLess(a, b))

\* sorted(list(all_sizes)): by the text alone.
SortSizes_byText(sizes) ==
    [i \in 1..Cardinality(sizes) |->
        CHOOSE x \in sizes : Cardinality({y \in sizes : StrLess(y, x)}) = i - 1]

\* sorted(list(all_sizes), key=lambda x: (len(x), x))
SortSizes(sizes) ==
    [i \in 1..Cardinality(sizes) |->
        CHOOSE x \in sizes : Cardinality({y \in sizes : SizeKeyLess(y, x)}) = i - 1]

\* if v['price'] and (best_price is None or v['price'] < best_price): the
\* prices are compared as text.
BetterPrice_byText(price, best_price) ==
    /\ Truthy(price)
    /\ (best_price = None \/ StrLess(price, best_price))

\* if v['price'] and (best_price is None or float(v['price']) < float(best_price))
BetterPrice(price, best_price) ==
    /\ Truthy(price)
    /\ (best_price = None \/ PriceValue(price) < PriceValue(best_price))

\* best_price after the loop
BestPrice(variants) ==
    LET F[k \in 0..Len(variants)] ==
            IF k = 0 THEN None
            ELSE IF BetterPrice(variants[k].price, F[k - 1])
            THEN variants[k].price
            ELSE F[k - 1]
    IN F[Len(variants)]

\* v['images'] of every variant: find_images_for_sku(v['raw_sku'], folder_map)
VariantImages(variants, folder_map) ==
    [k \in DOMAIN variants |-> find_images_for_sku(variants[k].raw_sku, folder_map)]

\* All images of the variants in variant order.
Flatten(lists) ==
    LET F[k \in 0..Len(lists)] == IF k = 0 THEN <<>> ELSE F[k - 1] \o lists[k]
    IN F[Len(lists)]

\* product_images: of the images with the same basename only the first stays.
ProductImages(images) ==
    LET all == Flatten(images)
    IN KeepAt(all, {i \in DOMAIN all : \A j \in 1..(i - 1) : all[j].file # all[i].file})

\* What the group is projected to, whatever the store holds.
Projection(variants, folder_map) ==
    [all_colors |-> AllColors(variants),
     all_sizes |-> SortSizes(SizeUnion(variants)),
     best_price |-> BestPrice(variants),
     images |-> VariantImages(variants, folder_map),
     categories |-> get_categories_for_famille(variants[1].famille),
     description |-> Strip(variants[1].description),
     short_description |-> Strip(variants[1].tech_desc)]

-----------------------------------------------------------------------------
(* The store behind WooCommerceAPI, and the calls made to it *)

\* A request to the store, and whether it succeeded.
Call(op, to, data, ok) == [op |-> op, to |-> to, data |-> data, ok |-> ok]

\* WooCommerceAPI.get_product_by_sku: the place of the first product of the
\* store with this SKU; 0 (None) when there is none or the request fails.
get_product_by_sku(store, sku, lookup_ok) ==
    LET found == {i \in DOMAIN store : store[i].sku = sku}
    IN IF ~lookup_ok \/ found = {} THEN 0
       ELSE CHOOSE i \in found : \A j \in found : i <= j

\* The variants looked up after the base SKU gave nothing: up to the first
\* one that is found, all of them when none is.
VariantsLookedUp(store, variants, lookup_ok) ==
    LET hits == {k \in DOMAIN variants :
                    get_product_by_sku(store, variants[k].raw_sku, lookup_ok) # 0}
    IN IF hits = {} THEN Len(variants)
       ELSE CHOOSE k \in hits : \A l \in hits : k <= l

\* existing_product, as a place in the store, 0 for None
ExistingProduct(store, base_sku, variants, lookup_ok) ==
    IF get_product_by_sku(store, base_sku, lookup_ok) # 0
    THEN get_product_by_sku(store, base_sku, lookup_ok)
    ELSE get_product_by_sku(store,
             variants[VariantsLookedUp(store, variants, lookup_ok)].raw_sku, lookup_ok)

\* The requests get_product_by_sku sends for the group.
LookupCalls(store, base_sku, variants, lookup_ok) ==
    <<Call("GET", "products", base_sku, lookup_ok)>> \o
    (IF get_product_by_sku(store, base_sku, lookup_ok) # 0 THEN <<>>
     ELSE [k \in 1..VariantsLookedUp(store, variants, lookup_ok) |->
              Call("GET", "products", variants[k].raw_sku, lookup_ok)])

\* config.SKIP_EXISTING
SKIP_EXISTING == TRUE

\* num_vars > 0 and num_imgs > 0
IsComplete(product) == product.variations # {} /\ product.images > 0

\* ProductSyncV2.upload_image for each path: one request per file; the ids of
\* the files the media endpoint took.
UploadCalls(paths, upload_ok) ==
    [i \in DOMAIN paths |-> Call("POST", "media", paths[i], upload_ok)]

Uploaded(paths, upload_ok) == IF upload_ok THEN paths ELSE <<>>

-----------------------------------------------------------------------------
(* ProductSyncV2.create_variations *)

\* color = str(v['color']).strip() if v['color'] else 'Default'
ColorKey(v) == IF Truthy(v.color) THEN Strip(v.color) ELSE Chars("Default")

\* The place of color among the keys of color_data, 0 when it is no key.
ColorIndex(color_data, color) ==
    IF \E i \in DOMAIN color_data : color_data[i].color = color
    THEN CHOOSE i \in DOMAIN color_data : color_data[i].color = color
    ELSE 0

\* The image uploaded for a variant: the id of its first image, nothing when
\* it has no image, when the run is dry or when the upload gives None.
VariantImageId(images, dry_run, upload_ok) ==
    IF ~dry_run /\ Len(images) > 0 /\ upload_ok THEN <<images[1]>> ELSE <<>>

\* One pass of the loop over the variants: the entry of the color is made
\* when the color is new, then sizes, price and image are filled in.
AddToColorData(color_data, v, image_id) ==
    LET i == ColorIndex(color_data, ColorKey(v))
        made == IF i # 0 THEN color_data
                ELSE Append(color_data, [color |-> ColorKey(v), sizes |-> {},
                                         price |-> v.price, image_id |-> image_id])
        at == IF i # 0 THEN i ELSE Len(color_data) + 1
    IN [made EXCEPT
           ![at].sizes = @ \cup Range(v.sizes),
           ![at].price = IF Truthy(v.price) /\ ~Truthy(@) THEN v.price ELSE @,
           ![at].image_id = IF Len(image_id) > 0 /\ Len(@) = 0 THEN image_id ELSE @]

\* color_data after the loop over the variants, in insertion order
ColorData(variants, images, dry_run, upload_ok) ==
    LET F[k \in 0..Len(variants)] ==
            IF k = 0 THEN <<>>
            ELSE AddToColorData(F[k - 1], variants[k],
                                VariantImageId(images[k], dry_run, upload_ok))
    IN F[Len(variants)]

\* The requests of the loop over the variants: the first image of every
\* variant that has one is uploaded.
VariantUploadCalls(images, dry_run, upload_ok) ==
    IF dry_run THEN <<>>
    ELSE UploadCalls(Flatten([k \in DOMAIN images |->
                                 IF Len(images[k]) > 0 THEN <<images[k][1]>> ELSE <<>>]),
                     upload_ok)

\* s turned left by n places
Rotate(s, n) == [i \in DOMAIN s |-> s[((i - 1 + n) % Len(s)) + 1]]

Reverse(s) == [i \in DOMAIN s |-> s[Len(s) + 1 - i]]

\* for size in a set of str: the order follows the hashes of the strings,
\* which change with the hash seed of the interpreter.
SetOrder(sizes, seed) ==
    IF sizes = {} THEN <<>>
    ELSE IF seed % 2 = 0 THEN Rotate(SortSizes(sizes), seed \div 2)
    ELSE Reverse(Rotate(SortSizes(sizes), seed \div 2))

\* effective_colors = all_colors if all_colors else [None]
EffectiveColors(all_colors) == IF all_colors = <<>> THEN <<None>> ELSE all_colors

\* color_sizes: the sizes of the color's own entry when it has any, else
\* all_sizes
ColorSizes(color_data, color, all_sizes, seed) ==
    LET i == ColorIndex(color_data, color)
    IN IF i # 0 /\ color_data[i].sizes # {}
       THEN SetOrder(color_data[i].sizes, seed)
       ELSE all_sizes

\* color_price = cd['price'] if cd['price'] else default_price
ColorPrice(color_data, color, default_price) ==
    LET i == ColorIndex(color_data, color)
    IN IF i # 0 /\ Truthy(color_data[i].price) THEN color_data[i].price
       ELSE default_price

\* color_image = cd.get('image_id')
ColorImage(color_data, color) ==
    LET i == ColorIndex(color_data, color)
    IN IF i # 0 THEN color_data[i].image_id ELSE <<>>

\* The request for one size of one color: PUT when the store had the
\* combination when the variations were fetched, else POST.
VariationCall(product, color, size, price, image) ==
    Call(IF <<size, color>> \in product.variations THEN "PUT" ELSE "POST",
         "variations",
         [regular_price |-> IF Truthy(price) THEN price ELSE <<>>,
          size |-> size, color |-> color, image |-> image],
         TRUE)

\* The requests of the loops over effective_colors and color_sizes.
VariationCalls(product, color_data, all_sizes, all_colors, default_price, seed) ==
    LET colors == EffectiveColors(all_colors)
    IN Flatten([c \in DOMAIN colors |->
           LET color_sizes == ColorSizes(color_data, colors[c], all_sizes, seed)
           IN [s \in DOMAIN color_sizes |->
                  VariationCall(product, colors[c], color_sizes[s],
                                ColorPrice(color_data, colors[c], default_price),
                                ColorImage(color_data, colors[c]))]])

\* The requests the store refuses: none, the first, or all of them.
Refused(calls, var_fail) ==
    IF var_fail = "none" THEN {}
    ELSE IF var_fail = "first" THEN DOMAIN calls \cap {1}
    ELSE DOMAIN calls

\* The requests with the answer of the store.
Answered(calls, var_fail) ==
    [i \in DOMAIN calls |-> [calls[i] EXCEPT !.ok = i \notin Refused(calls, var_fail)]]

\* The product with the variations the store has taken.
WithVariations(product, calls, var_fail) ==
    [product EXCEPT !.variations =
        @ \cup {<<calls[i].data.size, calls[i].data.color>> :
                   i \in DOMAIN calls \ Refused(calls, var_fail)}]

\* create_variations: raised tells that fetching the existing variations
\* failed, count is variations_created + variations_updated.
create_variations(product_id, variants, images, all_sizes, all_colors, default_price, store, dry_run, env) ==
    IF ~env.fetch_ok
    THEN [raised |-> TRUE, count |-> 0, store |-> store,
          calls |-> <<Call("GET", "variations", product_id, FALSE)>>]
    ELSE LET calls == VariationCalls(store[product_id],
                          ColorData(variants, images, dry_run, env.upload_ok),
                          all_sizes, all_colors, default_price, env.seed)
         IN [raised |-> FALSE,
             count |-> Len(calls) - Cardinality(Refused(calls, env.var_fail)),
             store |-> [store EXCEPT ![product_id] =
                           WithVariations(@, calls, env.var_fail)],
             calls |-> <<Call("GET", "variations", product_id, TRUE)>>
                       \o VariantUploadCalls(images, dry_run, env.upload_ok)
                       \o Answered(calls, env.var_fail)]

-----------------------------------------------------------------------------
(* ProductSyncV2.create_product_from_group *)

\* The outcome of one call: the value returned, the bucket the group went to
\* with its entry, the requests sent, and the store afterwards.
Outcome(ret, bucket, entry, calls, store) ==
    [ret |-> ret, bucket |-> bucket, entry |-> entry, calls |-> calls, store |-> store]

Skipped(base_sku, reason, calls, store) ==
    Outcome(FALSE, "skipped", [sku |-> base_sku, reason |-> reason], calls, store)

\* The except clause does not append to failed_products.
Failed_unrecorded(base_sku, error, calls, store) ==
    Outcome(FALSE, "none", [sku |-> base_sku, error |-> error], calls, store)

\* except Exception as e: the group goes to failed_products with str(e)
Failed(base_sku, error, calls, store) ==
    Outcome(FALSE, "failed", [sku |-> base_sku, error |-> error], calls, store)

\* product_data
ProductData(base_sku, product_name, plan, uploaded_images) ==
    [name |-> product_name,
     type |-> "variable",
     sku |-> base_sku,
     description |-> plan.description,
     short_description |-> plan.short_description,
     categories |-> plan.categories,
     sizes |-> plan.all_sizes,
     colors |-> plan.all_colors,
     images |-> uploaded_images]

\* The store after the product request: an existing product takes the new
\* data, a new product goes last and its place is its id.
PutProduct(store, existing, product_data) ==
    IF existing # 0
    THEN [store EXCEPT ![existing].sku = product_data.sku,
                       ![existing].name = product_data.name,
                       ![existing].images = Len(product_data.images)]
    ELSE Append(store, [sku |-> product_data.sku, name |-> product_data.name,
                        variations |-> {}, images |-> Len(product_data.images)])

ProductId(store, existing) == IF existing # 0 THEN existing ELSE Len(store) + 1

\* The try block: the product request, then create_variations; an exception
\* of either puts the group into failed_products.
SendProduct(base_sku, variants, plan, product_data, store, existing, calls, env) ==
    LET product_call == Call(IF existing # 0 THEN "PUT" ELSE "POST", "products",
                             product_data, env.product_ok)
    IN IF ~env.product_ok
       THEN Failed(base_sku, "products", Append(calls, product_call), store)
       ELSE LET made == create_variations(ProductId(store, existing), variants,
                            plan.images, plan.all_sizes, plan.all_colors,
                            plan.best_price, PutProduct(store, existing, product_data),
                            FALSE, env)
            IN IF made.raised
               THEN Failed(base_sku, "variations",
                           Append(calls, product_call) \o made.calls, made.store)
               ELSE Outcome(TRUE, "created",
                            [sku |-> base_sku, name |-> product_data.name,
                             id |-> ProductId(store, existing),
                             variations |-> made.count],
                            Append(calls, product_call) \o made.calls, made.store)

\* A run that is not dry: the product images are uploaded, then the product
\* is sent.
LiveProduct(base_sku, variants, plan, product_name, store, existing, calls, env) ==
    SendProduct(base_sku, variants, plan,
                ProductData(base_sku, product_name, plan,
                            Uploaded(ProductImages(plan.images), env.upload_ok)),
                store, existing,
                calls \o UploadCalls(ProductImages(plan.images), env.upload_ok), env)

\* The flag dry_run is not looked at.
BuildProduct_ignoresDryRun(base_sku, variants, plan, product_name, store, existing, calls, dry_run, env) ==
    LiveProduct(base_sku, variants, plan, product_name, store, existing, calls, env)

\* From the upload of the product images on: a dry run uploads nothing and
\* returns before the product is sent.
BuildProduct(base_sku, variants, plan, product_name, store, existing, calls, dry_run, env) ==
    IF dry_run
    THEN Outcome(TRUE, "created",
                 [sku |-> base_sku, name |-> product_name,
                  sizes |-> Len(plan.all_sizes), colors |-> Len(plan.all_colors),
                  status |-> "dry_run"],
                 calls, store)
    ELSE LiveProduct(base_sku, variants, plan, product_name, store, existing, calls, env)

\* The check of all_sizes is left out.
ProjectGroup_anySizes(base_sku, variants, plan, store, existing, calls, dry_run, env) ==
    IF ~Truthy(ProductName(variants, store, existing))
    THEN Skipped(base_sku, "no_name", calls, store)
    ELSE BuildProduct(base_sku, variants, plan, ProductName(variants, store, existing),
                      store, existing, calls, dry_run, env)

\* From the choice of the product name on.
ProjectGroup(base_sku, variants, plan, store, existing, calls, dry_run, env) ==
    IF ~Truthy(ProductName(variants, store, existing))
    THEN Skipped(base_sku, "no_name", calls, store)
    ELSE IF plan.all_sizes = <<>>
    THEN Skipped(base_sku, "no_sizes", calls, store)
    ELSE BuildProduct(base_sku, variants, plan, ProductName(variants, store, existing),
                      store, existing, calls, dry_run, env)

\* create_product_from_group(base_sku, variants, folder_map) on a sync object
\* with the flag dry_run, against the store, when the requests fare as env
\* tells; plan is Projection(variants, folder_map).
create_product_from_group(base_sku, variants, plan, store, dry_run, env) ==
    LET existing == ExistingProduct(store, base_sku, variants, env.lookup_ok)
        calls == LookupCalls(store, base_sku, variants, env.lookup_ok)
    IN IF existing # 0 /\ SKIP_EXISTING /\ IsComplete(store[existing])
       THEN Skipped(base_sku, "complete", calls, store)
       ELSE ProjectGroup(base_sku, variants, plan, store, existing, calls, dry_run, env)

-----------------------------------------------------------------------------
(* SpecResolve: find_images_for_sku on one raw SKU and one folder map *)

MaxFolders == 2

\* The keys get_folder_key gives the folders: upper case, no spaces.
FolderKeys ==
    {Chars("WPJF001"), Chars("WPJF001-127"), Chars("WPJF0012"),
     Chars("WPJF0012-BLUE"), Chars("WPJF0012-BLUEMEDIUM"), Chars("WPGR002")}

\* A folder holds no image or one; the path names the folder it lies in.
FolderEntries ==
    UNION {{[key |-> k, images |-> <<>>],
            [key |-> k, images |-> <<[dir |-> k, file |-> "1.jpg"]>>]} :
           k \in FolderKeys}

\* The folder maps of at most n folders: a dict has every key once.
FolderMaps(n) ==
    {m \in UNION {[1..k -> FolderEntries] : k \in 0..n} :
        \A i, j \in DOMAIN m : m[i].key = m[j].key => i = j}

ResolveSkus ==
    {Chars("WPJF 001-999"), Chars("WPJF 001-127"), Chars("WPJF 0012 BLUE MEDIUM"),
     Chars("WPJF 0012 blue"), Chars("WPJF 0012"), Chars("WPGR 002 /7"), Chars("  ")}

ResolveInit ==
    /\ r_sku \in ResolveSkus
    /\ r_map \in FolderMaps(MaxFolders)
    /\ r_pc = "ready"
    /\ r_out = <<>>
    /\ IdleScan
    /\ IdleNorm
    /\ IdleParse
    /\ IdleGroup

\* images = find_images_for_sku(raw_sku, folder_map)
Resolve ==
    /\ r_pc = "ready"
    /\ r_out' = find_images_for_sku(r_sku, r_map)
    /\ r_pc' = "done"
    /\ UNCHANGED <<r_sku, r_map, scanVars, normVars, parseVars, groupVars, syncVars>>

ResolveNext == Resolve

SpecResolve == ResolveInit /\ [][ResolveNext]_vars

-----------------------------------------------------------------------------
(* SpecScan: scan_image_folders on one directory listing *)

MaxItems == 3

\* str.lower()
Lower(s) == [i \in DOMAIN s |-> LowerChar(s[i])]

\* str.endswith
EndsWith(s, suffix) ==
    Len(suffix) <= Len(s) /\ Slice(s, Len(s) - Len(suffix) + 1, Len(s)) = suffix

\* The first position of the run of digits that ends at position to
\* (to + 1 when s[to] is no digit).
DigitsFrom(s, to) ==
    LET stops == {j \in 1..to : ~IsDigit(s[j])}
    IN IF stops = {} THEN 1 ELSE (CHOOSE j \in stops : \A k \in stops : k <= j) + 1

\* The first position of the run of whitespace that ends at position to
\* (to + 1 when s[to] is no whitespace).
SpacesFrom(s, to) ==
    LET stops == {j \in 1..to : ~IsSpace(s[j])}
    IN IF stops = {} THEN 1 ELSE (CHOOSE j \in stops : \A k \in stops : k <= j) + 1

\* re.sub(r'\s*\(\d+\)$', '', folder_name): a closing '(digits)' goes, with
\* the whitespace before it.
StripDuplicateMarker(folder_name) ==
    LET n == Len(folder_name)
        ds == DigitsFrom(folder_name, n - 1)
    IN IF /\ n >= 3
          /\ folder_name[n] = ")"
          /\ ds <= n - 1
          /\ ds >= 2
          /\ folder_name[ds - 1] = "("
       THEN Slice(folder_name, 1, SpacesFrom(folder_name, ds - 2) - 1)
       ELSE folder_name

\* image_mapping.get_folder_key
get_folder_key(folder_name) == Upper(RemoveSpaces(StripDuplicateMarker(folder_name)))

\* f.lower().endswith(('.jpg', '.jpeg', '.png', '.webp', '.gif'))
IsImage(f) ==
    \E ext \in {Chars(".jpg"), Chars(".jpeg"), Chars(".png"), Chars(".webp"), Chars(".gif")} :
        EndsWith(Lower(f), ext)

\* The entry scan_image_folders makes for the directory item: the images are
\* the files of the directory with an image extension, as paths.
FolderEntry(item) ==
    [key |-> get_folder_key(item.name),
     name |-> item.name,
     images |-> LET kept == KeepAt(item.files, {i \in DOMAIN item.files : IsImage(item.files[i])})
                IN [i \in DOMAIN kept |-> [dir |-> item.name, file |-> kept[i]]]]

\* folders[key] = {...}: a key that is there keeps its place and takes the
\* new entry, a new key goes last.
SetFolder(folders, entry) ==
    IF FolderIndex(folders, entry.key) # 0
    THEN [folders EXCEPT ![FolderIndex(folders, entry.key)] = entry]
    ELSE Append(folders, entry)

\* The names of the items of the images directory.
ItemNames ==
    {Chars("WPJF001"), Chars("WPJF001 (1)"), Chars("wpjf 001(2)"),
     Chars("WPGR002"), Chars("WPGR002 (a)")}

\* What a directory can hold.
FileLists ==
    {<<>>, <<Chars("1.jpg")>>, <<Chars("2.PNG"), Chars("notes.txt")>>}

\* The items: directories, and one plain file.
Items ==
    {[name |-> name, is_dir |-> TRUE, files |-> files] :
        name \in ItemNames, files \in FileLists}
    \cup {[name |-> Chars("cover.jpg"), is_dir |-> FALSE, files |-> <<>>]}

\* os.listdir(images_dir): up to n items in any order, no name twice.
Listings(n) ==
    {l \in UNION {[1..k -> Items] : k \in 0..n} :
        \A i, j \in DOMAIN l : l[i].name = l[j].name => i = j}

ScanInit ==
    /\ s_exists \in BOOLEAN
    /\ s_items \in (IF s_exists THEN Listings(MaxItems) ELSE {<<>>})
    /\ s_pc = "scan"
    /\ s_idx = 1
    /\ s_folders = <<>>
    /\ r_sku = NotRun
    /\ r_map = <<>>
    /\ r_pc = "idle"
    /\ r_out = <<>>
    /\ IdleNorm
    /\ IdleParse
    /\ IdleGroup

\* if not os.path.exists(images_dir): return {}
ScanMissing ==
    /\ s_pc = "scan"
    /\ ~s_exists
    /\ s_pc' = "done"
    /\ UNCHANGED <<s_exists, s_items, s_idx, s_folders, r_sku, r_map, r_pc, r_out,
                   normVars, parseVars, groupVars, syncVars>>

\* for item in os.listdir(images_dir): one item
ScanItem ==
    /\ s_pc = "scan"
    /\ s_exists
    /\ s_idx <= Len(s_items)
    /\ s_folders' = IF s_items[s_idx].is_dir
                    THEN SetFolder(s_folders, FolderEntry(s_items[s_idx]))
                    ELSE s_folders
    /\ s_idx' = s_idx + 1
    /\ UNCHANGED <<s_exists, s_items, s_pc, r_sku, r_map, r_pc, r_out,
                   normVars, parseVars, groupVars, syncVars>>

\* return folders
ScanReturn ==
    /\ s_pc = "scan"
    /\ s_exists
    /\ s_idx > Len(s_items)
    /\ s_pc' = "done"
    /\ UNCHANGED <<s_exists, s_items, s_idx, s_folders, r_sku, r_map, r_pc, r_out,
                   normVars, parseVars, groupVars, syncVars>>

ScanNext ==
    \/ ScanMissing
    \/ ScanItem
    \/ ScanReturn

SpecScan == ScanInit /\ [][ScanNext]_vars

-----------------------------------------------------------------------------
(* Spec: sync_from_xlsx, with group_rows_by_base_sku and the loop over its
   groups *)

MaxSeed == 1

\* What can go wrong with the requests of one call of
\* create_product_from_group: the lookups fail, the uploads are refused, the
\* product request fails, the fetch of the variations fails, or the first or
\* every variation request is refused.
Faults == {"none", "lookup", "upload", "product", "fetch", "first", "all"}

\* How the requests of one call fare when fault happens, and the order in
\* which the interpreter walks a set of sizes.
Env(fault, seed) ==
    [lookup_ok |-> fault # "lookup", upload_ok |-> fault # "upload",
     product_ok |-> fault # "product", fetch_ok |-> fault # "fetch",
     var_fail |-> IF fault \in {"first", "all"} THEN fault ELSE "none",
     seed |-> seed]

Envs == {Env(fault, seed) : fault \in Faults, seed \in 0..MaxSeed}

\* A product of the store.
Product(sku, name, variations, images) ==
    [sku |-> sku, name |-> name, variations |-> variations, images |-> images]

Init ==
    /\ g_rows \in UNION {[1..n -> Rows] : n \in 0..MaxRows}
    /\ g_limit \in 0..MaxRows
    /\ g_pc = "group"
    /\ g_idx = 1
    /\ g_groups = <<>>
    /\ g_calls = <<>>
    /\ g_dry \in BOOLEAN
    /\ g_folder = <<>>
    /\ g_store = <<>>
    /\ g_net = <<>>
    /\ g_created = <<>>
    /\ g_skipped = <<>>
    /\ g_failed = <<>>
    /\ g_success = 0
    /\ IdleNorm
    /\ IdleParse
    /\ IdleResolve

\* for idx in range(start_row, end_row): one row
GroupRow ==
    /\ g_pc = "group"
    /\ g_idx <= Len(g_rows)
    /\ g_groups' = GroupOneRow(g_groups, g_idx, g_rows[g_idx])
    /\ g_idx' = g_idx + 1
    /\ UNCHANGED <<g_rows, g_limit, g_pc, g_calls, syncVars, normVars, parseVars, resolveVars>>

\* return groups
GroupReturn ==
    /\ g_pc = "group"
    /\ g_idx > Len(g_rows)
    /\ g_pc' = "sync"
    /\ UNCHANGED <<g_rows, g_limit, g_idx, g_groups, g_calls, syncVars, normVars, parseVars, resolveVars>>

\* if limit and processed >= limit
LimitReached == g_limit # 0 /\ Len(g_calls) >= g_limit

\* success += 1 whatever create_product_from_group returns.
Record_countsEveryCall(out) ==
    /\ g_net' = Append(g_net, out.calls)
    /\ g_store' = out.store
    /\ g_created' = IF out.bucket = "created" THEN Append(g_created, out.entry)
                    ELSE g_created
    /\ g_skipped' = IF out.bucket = "skipped" THEN Append(g_skipped, out.entry)
                    ELSE g_skipped
    /\ g_failed' = IF out.bucket = "failed" THEN Append(g_failed, out.entry)
                   ELSE g_failed
    /\ g_success' = g_success + 1

\* What a call of create_product_from_group with the outcome out leaves
\* behind: the requests, the store, the bucket entry, and success.
Record(out) ==
    /\ g_net' = Append(g_net, out.calls)
    /\ g_store' = out.store
    /\ g_created' = IF out.bucket = "created" THEN Append(g_created, out.entry)
                    ELSE g_created
    /\ g_skipped' = IF out.bucket = "skipped" THEN Append(g_skipped, out.entry)
                    ELSE g_skipped
    /\ g_failed' = IF out.bucket = "failed" THEN Append(g_failed, out.entry)
                   ELSE g_failed
    /\ g_success' = IF out.ret THEN g_success + 1 ELSE g_success

\* for base_sku, variants in groups.items(): processed += 1, and the next
\* group is handed to create_product_from_group
SyncGroup ==
    /\ g_pc = "sync"
    /\ Len(g_calls) < Len(g_groups)
    /\ ~LimitReached
    /\ g_calls' = Append(g_calls, g_groups[Len(g_calls) + 1].base_sku)
    /\ LET group == g_groups[Len(g_calls) + 1]
           plan == Projection(group.variants, g_folder)
       IN \E env \in Envs :
             Record(create_product_from_group(group.base_sku, group.variants,
                                              plan, g_store, g_dry, env))
    /\ UNCHANGED <<g_rows, g_limit, g_pc, g_idx, g_groups, g_dry, g_folder,
                   normVars, parseVars, resolveVars>>

\* The loop ends: no group is left, or the limit is reached.
SyncEnd ==
    /\ g_pc = "sync"
    /\ Len(g_calls) = Len(g_groups) \/ LimitReached
    /\ g_pc' = "done"
    /\ UNCHANGED <<g_rows, g_limit, g_idx, g_groups, g_calls, syncVars, normVars, parseVars, resolveVars>>

Next ==
    \/ GroupRow
    \/ GroupReturn
    \/ SyncGroup
    \/ SyncEnd

Spec == Init /\ [][Next]_vars

-----------------------------------------------------------------------------
(* SpecProject: the loop of sync_from_xlsx over the groups of a few rows
   whose cells vary *)

MaxVariants == 3

\* Every sequence of 1..n members of rows.
RowSeqs(rows, n) == UNION {[1..k -> rows] : k \in 1..n}

\* Rows of one product that differ in the name and in what goes with it:
\* family, technical description, description; the row whose name is blank
\* flags no size.
NameRows ==
    {Row(Chars("WPJF 001-127"), Chars("19.99"), None, None, Chars("PULL"),
         Chars("maille"), Chars("Pull doux"), SizeCells({9})),
     Row(Chars("WPJF 001-127"), Chars("19.99"), Chars("  "), None, None,
         None, None, SizeCells({})),
     Row(Chars("WPJF 001-127"), Chars("19.99"), Chars(" Robe "), None,
         Chars("jupe jeans longue"), Chars(" coton "), Chars("Belle robe"),
         SizeCells({9})),
     Row(Chars("WPJF 001-127"), Chars("19.99"), Chars("Jupe"), None,
         Chars("T-SHIRT"), None, Chars("Jupe"), SizeCells({9}))}

\* What the price cell can hold.
PriceCells == {None, Chars("19.99"), Chars("15.50"), Chars("100"), Chars("abc")}

\* Rows of one product that differ in the price.
PriceRows ==
    {Row(Chars("WPJF 001"), price, Chars("Robe"), None, None, None, None,
         SizeCells({9})) : price \in PriceCells}

\* Rows of one product that differ in color, sizes and price; the SKU of some
\* has a variation code, which stands in for an empty color cell.
ColorRows ==
    {Row(Chars("WPJF 001-127"), Chars("19.99"), Chars("Robe"), Chars("ROSE"),
         None, None, None, SizeCells({9, 14})),
     Row(Chars("WPJF 001-130"), None, Chars("Robe"), Chars(" ROSE "),
         None, None, None, SizeCells({15})),
     Row(Chars("WPJF 001-127"), Chars("15.50"), Chars("Robe"), Chars("BLEU"),
         None, None, None, SizeCells({})),
     Row(Chars("WPJF 001"), None, Chars("Robe"), None,
         None, None, None, SizeCells({10})),
     Row(Chars("WPJF 001-127"), Chars("100"), Chars("Robe"), None,
         None, None, None, SizeCells({9})),
     Row(Chars("WPJF 001"), Chars("19.99"), Chars("Robe"), Chars("  "),
         None, None, None, SizeCells({11}))}

\* Rows of one product without a variation code: one names the color
\* 'Default', the other has no color.
DefaultRows ==
    {Row(Chars("WPJF 001"), Chars("19.99"), Chars("Robe"), Chars("Default"),
         None, None, None, SizeCells({9})),
     Row(Chars("WPJF 001"), Chars("15.50"), Chars("Robe"), None,
         None, None, None, SizeCells({10}))}

\* A row of one product with any of the size columns flagged.
SizeRows ==
    {Row(Chars("WPJF 001"), Chars("19.99"), Chars("Robe"), None, None, None, None,
         SizeCells(flagged)) : flagged \in SUBSET (9..16)}

\* Rows whose size cells hold other things than a plain 'X'.
FlagRows ==
    {Row(Chars("WPJF 001"), Chars("19.99"), Chars("Robe"), None, None, None, None,
         [SizeCells({9, 15}) EXCEPT ![14] = Chars(" x "), ![10] = Chars("O")]),
     Row(Chars("WPJF 001"), Chars("19.99"), Chars("Robe"), None, None, None, None,
         SizeCells({14, 15})),
     Row(Chars("WPJF 001"), Chars("19.99"), Chars("Robe"), None, None, None, None,
         SizeCells({}))}

\* Rows of several products: full rows, a row without a name and a row
\* without a size.
MixedRows ==
    {FullRow(Chars("WPJF 001-127")), FullRow(Chars("WPGR002")),
     Row(Chars("WPGR 003"), Chars("19.99"), None, None, None, None, None,
         SizeCells({9})),
     Row(Chars("WPMF001 ROSE -39"), None, Chars("Pull"), None, Chars("PULL"),
         None, None, SizeCells({}))}

\* The rows of a run.
ProjectRows ==
    RowSeqs(NameRows, MaxVariants) \cup RowSeqs(PriceRows, MaxVariants)
    \cup RowSeqs(ColorRows, MaxVariants) \cup RowSeqs(SizeRows, 1)
    \cup RowSeqs(FlagRows, MaxVariants - 1) \cup RowSeqs(MixedRows, MaxVariants)
    \cup RowSeqs(DefaultRows, MaxVariants - 1)

\* The stores a run starts with: empty; a product under the base SKU that
\* has a variation but no image; a product under the raw SKU of a row that
\* has variations and images.
Stores ==
    {<<>>,
     <<Product(Chars("WPJF 001"), Chars("Jean"), {<<Chars("2-3"), Chars("ROSE")>>}, 0)>>,
     <<Product(Chars("WPJF 001-127"), Chars("Jean"), {<<Chars("2-3"), None>>}, 1)>>}

\* The folder maps of a run: no folder, or a folder of the variation 127 and
\* a folder of the base SKU whose image files have the same names.
Folders ==
    {<<>>,
     <<[key |-> Chars("WPJF001-127"),
        images |-> <<[dir |-> Chars("WPJF001-127"), file |-> "1.jpg"],
                     [dir |-> Chars("WPJF001-127"), file |-> "2.jpg"]>>],
       [key |-> Chars("WPJF001"),
        images |-> <<[dir |-> Chars("WPJF001"), file |-> "1.jpg"]>>]>>}

\* groups as group_rows_by_base_sku returns it for the rows.
GroupRows(rows) ==
    LET F[idx \in 0..Len(rows)] ==
            IF idx = 0 THEN <<>> ELSE GroupOneRow(F[idx - 1], idx, rows[idx])
    IN F[Len(rows)]

\* The rows are grouped; the loop over the groups is about to start.
ProjectInit ==
    /\ g_rows \in ProjectRows
    /\ g_limit = 0
    /\ g_pc = "sync"
    /\ g_idx = Len(g_rows) + 1
    /\ g_groups = GroupRows(g_rows)
    /\ g_calls = <<>>
    /\ g_dry \in BOOLEAN
    /\ g_folder \in Folders
    /\ g_store \in Stores
    /\ g_net = <<>>
    /\ g_created = <<>>
    /\ g_skipped = <<>>
    /\ g_failed = <<>>
    /\ g_success = 0
    /\ IdleNorm
    /\ IdleParse
    /\ IdleResolve

ProjectNext ==
    \/ SyncGroup
    \/ SyncEnd

SpecProject == ProjectInit /\ [][ProjectNext]_vars

-----------------------------------------------------------------------------
(* SpecTwice: create_product_from_group on the same group, folder map and
   store in two runs of the interpreter *)

\* The rows of one group, with colors and sizes of their own.
TwiceRows == RowSeqs(ColorRows, MaxVariants) \cup RowSeqs(FlagRows, MaxVariants - 1)

TwiceInit ==
    /\ g_rows \in TwiceRows
    /\ g_limit = 0
    /\ g_pc = "sync"
    /\ g_idx = Len(g_rows) + 1
    /\ g_groups = GroupRows(g_rows)
    /\ g_calls = <<>>
    /\ g_dry \in BOOLEAN
    /\ g_folder \in Folders
    /\ g_store \in Stores
    /\ g_net = <<>>
    /\ g_created = <<>>
    /\ g_skipped = <<>>
    /\ g_failed = <<>>
    /\ g_success = 0
    /\ IdleNorm
    /\ IdleParse
    /\ IdleResolve

\* Two runs hand the first group to create_product_from_group; each starts
\* from the same store and no request fails; the interpreter of each run has
\* a hash seed of its own. The requests of both runs are kept.
ProjectTwice ==
    /\ g_pc = "sync"
    /\ g_net = <<>>
    /\ LET group == g_groups[1]
           plan == Projection(group.variants, g_folder)
       IN \E seed1, seed2 \in 0..MaxSeed :
             g_net' = <<create_product_from_group(group.base_sku, group.variants, plan,
                            g_store, g_dry, Env("none", seed1)).calls,
                        create_product_from_group(group.base_sku, group.variants, plan,
                            g_store, g_dry, Env("none", seed2)).calls>>
    /\ g_calls' = <<g_groups[1].base_sku, g_groups[1].base_sku>>
    /\ g_pc' = "done"
    /\ UNCHANGED <<g_rows, g_limit, g_idx, g_groups, g_dry, g_folder, g_store,
                   g_created, g_skipped, g_failed, g_success,
                   normVars, parseVars, resolveVars>>

TwiceNext == ProjectTwice

SpecTwice == TwiceInit /\ [][TwiceNext]_vars

-----------------------------------------------------------------------------
(* normalize_sku: C1, C2, C3 *)

\* C1: two raw SKUs that differ only by the length of a whitespace run, by
\* the spacing around a dash, or by a slash in place of a dash have the same
\* normalized key.
C1_SameKeyAcrossSpellings ==
    n_edit \in {"space", "dash", "separator"} => n_res.normalized = n_prev.normalized

\* A SKU written with a slash has been normalized on a pattern branch, after
\* the spelling with the dash.
C1_Witness ==
    /\ n_edit = "separator"
    /\ "/" \in Range(n_sku)
    /\ n_res.variation # None
    /\ n_prev.variation # None

\* C2: normalizing the normalized key gives the same key, on the pattern
\* branches and on the fallback branch.
C2_KeyIdempotent ==
    n_edit = "again" => n_res.normalized = n_prev.normalized

\* The key of a SKU with a space-separated, two-word variation has been
\* normalized again.
C2_Witness ==
    /\ n_edit = "again"
    /\ n_prev.variation # None
    /\ " " \in Range(n_prev.variation)
    /\ n_res.base_sku = n_prev.base_sku

\* C3 as stated: the normalized key is uppercase for every raw SKU, and two
\* raw SKUs that differ only in letter case have the same normalized key.
C3_AsStated ==
    n_res # NoNorm /\ n_res.normalized # None =>
        /\ \A i \in DOMAIN n_res.normalized : ~IsLower(n_res.normalized[i])
        /\ n_edit = "case" => n_res.normalized = n_prev.normalized

-----------------------------------------------------------------------------
(* parse_sku: C4, C8, C9 *)

ParseDone == p_res # NoParse

Parsed(base, var) == [base |-> Chars(base), var |-> Chars(var)]

\* C4: parse_sku returns 'WPJF 001-127' -> ('WPJF 001', '127'),
\* 'WPJF 001 -120' -> ('WPJF 001', '120'), 'WPMF001 ROSE -39' ->
\* ('WPMF001', '39') and 'WPJF 0012 BLUE MEDIUM' -> ('WPJF 0012', 'BLUE MEDIUM').
C4_ParseExamples ==
    ParseDone =>
        /\ p_sku = Chars("WPJF 001-127") => p_res = Parsed("WPJF 001", "127")
        /\ p_sku = Chars("WPJF 001 -120") => p_res = Parsed("WPJF 001", "120")
        /\ p_sku = Chars("WPMF001 ROSE -39") => p_res = Parsed("WPMF001", "39")
        /\ p_sku = Chars("WPJF 0012 BLUE MEDIUM")
              => p_res = Parsed("WPJF 0012", "BLUE MEDIUM")

\* The example whose base the deep parse shortens has been parsed.
C4_Witness == ParseDone /\ p_sku = Chars("WPMF001 ROSE -39")

\* C8: parse_sku returns (None, None) exactly when the raw SKU is empty or
\* whitespace only, and otherwise a pair whose base is a non-empty string.
C8_ParseTotal ==
    ParseDone =>
        /\ (p_res.base = None /\ p_res.var = None) <=> IsBlank(p_sku)
        /\ ~IsBlank(p_sku) => p_res.base # None /\ Len(p_res.base) >= 1
        /\ p_res.base = None => p_res.var = None

\* A SKU made of a dash and digits only has been parsed: the dash pattern has
\* nothing to take for its base.
C8_Witness ==
    /\ ParseDone
    /\ Len(p_sku) >= 2
    /\ p_sku[1] = "-"
    /\ \A i \in 2..Len(p_sku) : IsDigit(p_sku[i])
    /\ p_res.base = p_sku

\* The places <<d, g>> of a closing "dash, optional spaces, digit run to the
\* end" in c: the dash at d, the digits from g.
DashDigitEndings(c) ==
    {dg \in (DOMAIN c) \X (DOMAIN c) :
        /\ dg[1] < dg[2]
        /\ c[dg[1]] = "-"
        /\ \A i \in dg[1] + 1..dg[2] - 1 : c[i] = " "
        /\ \A i \in dg[2]..Len(c) : IsDigit(c[i])}

\* The variation is the digit run of every such ending.
VarIsDigitRun(c, endings) ==
    \A dg \in endings : p_res.var = Slice(c, dg[2], Len(c))

\* What was captured before the deep parse is what parse_sku returns.
CapturedVarKept == p_first.var # None => p_res.var = p_first.var

\* C9 as stated: whenever the whitespace-collapsed SKU ends with a dash
\* (optional spaces around it) and a digit run, that digit run is the
\* variation, also when the deep parse shortens the base; a descriptor becomes
\* the variation only when none was captured before the deep parse.
C9_AsStated ==
    ParseDone /\ ~IsBlank(p_sku) =>
        /\ VarIsDigitRun(CollapseSpaces(p_sku), DashDigitEndings(CollapseSpaces(p_sku)))
        /\ CapturedVarKept

\* C9 amended: the same, when at least one character precedes the dash and
\* the spaces before it.
C9_DashDigitsKept ==
    ParseDone /\ ~IsBlank(p_sku) =>
        /\ LET c == CollapseSpaces(p_sku)
           IN VarIsDigitRun(c, {dg \in DashDigitEndings(c) :
                                   \E i \in 1..dg[1] - 1 : c[i] # " "})
        /\ CapturedVarKept

\* The deep parse has shortened the base of a SKU that ends with dash and
\* digits, and the digits are still the variation.
C9_Witness ==
    /\ ParseDone
    /\ ~IsBlank(p_sku)
    /\ DashDigitEndings(CollapseSpaces(p_sku)) # {}
    /\ p_first.var # None
    /\ p_res.base # p_first.base

-----------------------------------------------------------------------------
(* group_rows_by_base_sku: C5, C6, C7 *)

\* The rows the grouping loop has been through.
RowsSeen == 1..(g_idx - 1)

\* The places <<group, position>> at which the row idx is held.
PlacesOf(idx) ==
    {gp \in (DOMAIN g_groups) \X (1..MaxRows + 1) :
        /\ gp[2] <= Len(g_groups[gp[1]].variants)
        /\ g_groups[gp[1]].variants[gp[2]].row_idx = idx}

\* The SKU cell holds a SKU that parses to a base.
HasBase(row) == ~IsNa(row.sku) /\ ~IsBlank(row.sku) /\ parse_sku(row.sku).base # None

RowIdxs(group) == [k \in DOMAIN group.variants |-> group.variants[k].row_idx]

\* C5 as stated: rows with the SKUs 'WPJF001-A', 'WPJF001-B', 'WPGR002' give
\* exactly 2 groups, 'WPJF001' with the first two rows in order and 'WPGR002'
\* with the third.
C5_AsStated ==
    /\ g_pc # "group"
    /\ [i \in DOMAIN g_rows |-> g_rows[i].sku]
          = <<Chars("WPJF001-A"), Chars("WPJF001-B"), Chars("WPGR002")>>
    => /\ Len(g_groups) = 2
       /\ g_groups[1].base_sku = Chars("WPJF001")
       /\ RowIdxs(g_groups[1]) = <<1, 2>>
       /\ g_groups[2].base_sku = Chars("WPGR002")
       /\ RowIdxs(g_groups[2]) = <<3>>

\* C6: every row whose SKU cell is non-blank and parses to a base is held
\* exactly once, in the group keyed by its own parsed base; a row with a
\* blank or absent SKU, or without a base, is in no group.
C6_RowsPartitioned ==
    /\ g_pc \in {"group", "sync", "done"}
    /\ \A idx \in RowsSeen :
          IF HasBase(g_rows[idx])
          THEN /\ Cardinality(PlacesOf(idx)) = 1
               /\ \A gp \in PlacesOf(idx) :
                     g_groups[gp[1]].base_sku = parse_sku(g_rows[idx].sku).base
          ELSE PlacesOf(idx) = {}
    /\ \A i \in DOMAIN g_groups :
          \A k \in DOMAIN g_groups[i].variants :
              g_groups[i].variants[k].row_idx \in RowsSeen
    /\ \A i, j \in DOMAIN g_groups :
          g_groups[i].base_sku = g_groups[j].base_sku => i = j

\* All rows are grouped: a group holds two rows, and a row with a blank SKU
\* cell between them was skipped.
C6_Witness ==
    /\ g_pc = "done"
    /\ Len(g_rows) = 3
    /\ ~IsNa(g_rows[2].sku) /\ IsBlank(g_rows[2].sku)
    /\ \E i \in DOMAIN g_groups : RowIdxs(g_groups[i]) = <<1, 3>>

\* The base each row seen parses to, None for a row that is skipped.
BaseOfRow ==
    [idx \in RowsSeen |->
        IF HasBase(g_rows[idx]) THEN parse_sku(g_rows[idx].sku).base ELSE None]

\* The first row of those in bases (row -> base) that parses to base_sku.
FirstRowOf(bases, base_sku) ==
    CHOOSE idx \in DOMAIN bases :
        /\ bases[idx] = base_sku
        /\ \A j \in 1..idx - 1 : bases[j] # base_sku

\* C7: the groups are in the order in which their base SKUs first occur in
\* the rows, the variants of a group are in ascending row order, and the sync
\* loop takes the groups in that order.
C7_FirstSeenOrder ==
    LET bases == BaseOfRow
        first == [i \in DOMAIN g_groups |-> FirstRowOf(bases, g_groups[i].base_sku)]
    IN /\ g_pc \in {"group", "sync", "done"}
       /\ \A i, j \in DOMAIN g_groups : i < j => first[i] < first[j]
       /\ \A i \in DOMAIN g_groups :
             /\ g_groups[i].variants # <<>>
             /\ g_groups[i].variants[1].row_idx = first[i]
             /\ \A k, l \in DOMAIN g_groups[i].variants :
                   k < l => g_groups[i].variants[k].row_idx
                               < g_groups[i].variants[l].row_idx
       /\ Len(g_calls) <= Len(g_groups)
       /\ \A i \in DOMAIN g_calls : g_calls[i] = g_groups[i].base_sku

\* The second row of the first group came after the first row of the second
\* group, and the sync loop has taken both groups.
C7_Witness ==
    /\ g_pc = "done"
    /\ Len(g_groups) = 2
    /\ Len(g_calls) = 2
    /\ RowIdxs(g_groups[1]) = <<1, 3>>
    /\ RowIdxs(g_groups[2]) = <<2>>

-----------------------------------------------------------------------------
(* find_images_for_sku: C10 *)

\* The folder map has the key.
HasFolder(key) == FolderIndex(r_map, key) # 0

\* C10: for a raw SKU with a variation, when the folder map has no key equal
\* to the SKU's normalized key, nor to base-variation with the spaces removed,
\* but has the key of the base SKU, the images of that base-only folder are
\* returned.  The keys are compared the way the lookup compares them, in
\* upper case.
C10_BaseOnlyFallback ==
    LET n == normalize_sku(r_sku)
    IN /\ r_pc = "done"
       /\ Truthy(n.variation)
       /\ ~HasFolder(Upper(RemoveSpaces(n.normalized)))
       /\ ~HasFolder(Upper(n.base_sku \o <<"-">> \o RemoveSpaces(n.variation)))
       /\ HasFolder(Upper(n.base_sku))
       => r_out = r_map[FolderIndex(r_map, Upper(n.base_sku))].images

\* 'WPJF 001-999' has been resolved against a map in which a folder of another
\* product, whose key starts with WPJF001, comes before the folder WPJF001,
\* and the image of WPJF001 came back.
C10_Witness ==
    /\ r_pc = "done"
    /\ r_sku = Chars("WPJF 001-999")
    /\ Len(r_map) = 2
    /\ r_map[1].key = Chars("WPJF0012")
    /\ r_map[1].images # <<>>
    /\ r_map[2].key = Chars("WPJF001")
    /\ r_out = <<[dir |-> Chars("WPJF001"), file |-> "1.jpg"]>>

-----------------------------------------------------------------------------
(* find_images_for_sku: C11 *)

\* The folders the four lookups of the cascade find for the normalized SKU n,
\* in the order of the cascade; 0 for a lookup that finds none.
StageFolders(n) ==
    <<FolderIndex(r_map, ExactKey(n.normalized)),
      IF Truthy(n.variation)
      THEN FolderIndex(r_map, KeyNoSpace(n.base_sku, n.variation)) ELSE 0,
      BaseOnlyMatch(r_map, n.base_sku),
      PrefixMatch(r_map, n.base_sku)>>

\* The stages whose folder holds at least one image.
StagesWithImages(n) ==
    {s \in 1..4 : ImagesAt(r_map, StageFolders(n)[s]) # <<>>}

\* C11 as stated: the images returned are those of the first stage of the
\* cascade (exact key, variation-without-spaces key, base-only key, prefix
\* match) whose folder has a non-empty image list; a matched folder without
\* image files does not end the cascade while a later stage gives images.
C11_AsStated ==
    LET n == normalize_sku(r_sku)
        stages == StagesWithImages(n)
    IN r_pc = "done" /\ Truthy(n.normalized)
       => r_out = IF stages = {} THEN <<>>
                  ELSE ImagesAt(r_map, StageFolders(n)[CHOOSE s \in stages :
                                                          \A u \in stages : s <= u])

-----------------------------------------------------------------------------
(* create_product_from_group: C12, C13, C14 *)

\* The calls of create_product_from_group made so far, by their place.
Processed == DOMAIN g_calls

\* The product requests (POST or PUT) of the i-th call.
ProductRequests(i) ==
    {c \in Range(g_net[i]) : c.to = "products" /\ c.op # "GET"}

\* The entries of a bucket for the group of the i-th call.
EntriesFor(bucket, i) == {e \in Range(bucket) : e.sku = g_calls[i]}

\* The spreadsheet row behind the k-th variant of the i-th group.
RowOf(i, k) == g_rows[g_groups[i].variants[k].row_idx]

\* The cell is not empty and not blank after trimming.
NonBlank(cell) == cell # None /\ Strip(cell) # <<>>

\* The first variant of the i-th group whose name cell is non-blank, 0 when
\* there is none.
FirstWithName(i) ==
    LET named == {k \in DOMAIN g_groups[i].variants : NonBlank(RowOf(i, k).name)}
    IN IF named = {} THEN 0 ELSE CHOOSE k \in named : \A l \in named : k <= l

\* C12 as stated: the projected product name is the trimmed name of the
\* first variant, in row order, whose name is non-blank after trimming; an
\* earlier variant with a blank or whitespace-only name never prevents it.
C12_AsStated ==
    \A i \in Processed :
        FirstWithName(i) # 0
        => /\ \A e \in EntriesFor(g_skipped, i) : e.reason # "no_name"
           /\ \A e \in EntriesFor(g_created, i) :
                 e.name = Strip(RowOf(i, FirstWithName(i)).name)
           /\ \A c \in ProductRequests(i) :
                 c.data.name = Strip(RowOf(i, FirstWithName(i)).name)

\* The text of a description cell, '' for an empty one.
CellText(cell) == IF cell = None THEN <<>> ELSE Strip(cell)

\* C13 as stated: the family behind the categories, the description and the
\* technical description of the product are those of the variant that
\* gives the name, the first variant with a non-blank name, not those of the
\* first row of the group when that row has no name.
C13_AsStated ==
    \A i \in Processed :
        \A c \in ProductRequests(i) :
            FirstWithName(i) # 0
            => /\ c.data.categories
                    = get_categories_for_famille(RowOf(i, FirstWithName(i)).famille)
               /\ c.data.description = CellText(RowOf(i, FirstWithName(i)).description)
               /\ c.data.short_description
                    = CellText(RowOf(i, FirstWithName(i)).tech_description)

\* The entry of a group skipped for want of a name.
NoName(base_sku) == [sku |-> base_sku, reason |-> "no_name"]

\* C14 as stated: when no variant of a group has a non-blank name, the group
\* is recorded as skipped with reason no_name and no product request is sent
\* for it, whatever the store holds.
C14_AsStated ==
    \A i \in Processed :
        FirstWithName(i) = 0
        => /\ NoName(g_calls[i]) \in Range(g_skipped)
           /\ ProductRequests(i) = {}

\* The store holds a product under the base SKU of the group or under the
\* raw SKU of one of its variants.
InStore(store, group) ==
    \E p \in DOMAIN store :
        \/ store[p].sku = group.base_sku
        \/ \E k \in DOMAIN group.variants : store[p].sku = group.variants[k].raw_sku

\* C14: when no variant of the group has a non-blank name and the store holds
\* no product under the base SKU of the group or a raw SKU of its variants,
\* the call records the group as skipped with reason no_name, sends nothing
\* but lookups and leaves the store as it is.
C14_NoNameWhenNotInStore ==
    [][LET i == Len(g_calls) + 1
       IN (/\ g_pc = "sync"
           /\ Len(g_calls') = i
           /\ FirstWithName(i) = 0
           /\ ~InStore(g_store, g_groups[i]))
          => /\ g_skipped' = Append(g_skipped, NoName(g_groups[i].base_sku))
             /\ \A c \in Range(g_net'[i]) : c.op = "GET"
             /\ g_store' = g_store
             /\ g_created' = g_created
             /\ g_failed' = g_failed]_vars

\* A group without any name was skipped while the store held a product of
\* another group, and the run was not dry.
C14_Witness ==
    /\ ~g_dry
    /\ g_store # <<>>
    /\ \E i \in Processed :
          /\ FirstWithName(i) = 0
          /\ ~InStore(g_store, g_groups[i])
          /\ NoName(g_calls[i]) \in Range(g_skipped)

-----------------------------------------------------------------------------
(* create_product_from_group: C15 *)

\* The size columns flagged in at least one row of the i-th group.
FlaggedColumns(i) ==
    {col \in DOMAIN SIZE_COLUMNS :
        \E k \in DOMAIN g_groups[i].variants : IsFlagged(RowOf(i, k).sizes[col])}

\* The column of a size label.
ColumnOf(label) == CHOOSE col \in DOMAIN SIZE_COLUMNS : SIZE_COLUMNS[col] = label

\* C15: the size options of the product are the sizes flagged in any row of
\* the group, each once, ordered by the length of the label and then by its
\* text ('11-12', '2-3', '9-10' give '2-3', '9-10', '11-12'); for every set
\* of the eight size labels this is the order of the spreadsheet columns.
C15_SizesInColumnOrder ==
    \A i \in Processed :
        \A c \in ProductRequests(i) :
            LET sizes == c.data.sizes
            IN /\ Range(sizes) = {SIZE_COLUMNS[col] : col \in FlaggedColumns(i)}
               /\ Len(sizes) = Cardinality(FlaggedColumns(i))
               /\ \A a, b \in DOMAIN sizes :
                     a < b => /\ SizeKeyLess(sizes[a], sizes[b])
                              /\ ColumnOf(sizes[a]) < ColumnOf(sizes[b])
               /\ Range(sizes) = {Chars("11-12"), Chars("2-3"), Chars("9-10")}
                  => sizes = <<Chars("2-3"), Chars("9-10"), Chars("11-12")>>

\* A product was sent with the sizes '2-3', '9-10', '11-12' for a group of
\* two rows that both flag '11-12'.
C15_Witness ==
    \E i \in Processed :
        \E c \in ProductRequests(i) :
            /\ c.data.sizes = <<Chars("2-3"), Chars("9-10"), Chars("11-12")>>
            /\ Len(g_groups[i].variants) = 2
            /\ \A k \in 1..2 : IsFlagged(RowOf(i, k).sizes[15])

-----------------------------------------------------------------------------
(* create_product_from_group: C16 *)

\* The variation requests (POST or PUT) of the i-th call.
VariationRequests(i) ==
    {c \in Range(g_net[i]) : c.to = "variations" /\ c.op # "GET"}

\* The price cells of the rows of the i-th group, in the order of the rows.
PriceCellsOf(i) == [k \in DOMAIN g_groups[i].variants |-> RowOf(i, k).price]

\* The prices of the i-th group that parse as numbers, in hundredths.
ParsablePrices(i) ==
    {Round2(FloatOf(Strip(cell))) :
        cell \in {c \in Range(PriceCellsOf(i)) : c # None /\ IsDecimal(Strip(c))}}

\* The smallest member of a non-empty set of numbers.
Minimum(S) == CHOOSE x \in S : \A y \in S : x <= y

\* C16: the group price is the numerically smallest of the prices of the
\* variants that parse, in whatever order the variants come; it is absent
\* only when no variant has a price (None, 19.99, 15.50 give 15.50). The
\* group price is what a variation without a color is sent with.
C16_GroupPriceIsMinimum ==
    \A i \in Processed :
        \A c \in VariationRequests(i) :
            c.data.color = None =>
                /\ (c.data.regular_price = <<>>) = (ParsablePrices(i) = {})
                /\ ParsablePrices(i) # {} =>
                      /\ IsDecimal(c.data.regular_price)
                      /\ PriceValue(c.data.regular_price) = Minimum(ParsablePrices(i))
                /\ PriceCellsOf(i) = <<None, Chars("19.99"), Chars("15.50")>>
                   => c.data.regular_price = Chars("15.5")

\* The variations of a group whose rows have the prices None, 19.99, 15.50
\* were sent with 15.5.
C16_Witness ==
    \E i \in Processed :
        /\ PriceCellsOf(i) = <<None, Chars("19.99"), Chars("15.50")>>
        /\ \E c \in VariationRequests(i) :
              c.data.color = None /\ c.data.regular_price = Chars("15.5")

-----------------------------------------------------------------------------
(* create_product_from_group: C17 *)

\* The members of s, each once, in the order of first occurrence.
FirstOccurrences(s) ==
    KeepAt(s, {a \in DOMAIN s : \A b \in 1..(a - 1) : s[b] # s[a]})

\* The color cells of the rows of the i-th group, in the order of the rows.
ColorCellsOf(i) == [k \in DOMAIN g_groups[i].variants |-> RowOf(i, k).color]

\* The color cell of each row of the i-th group, the variation code of the
\* row's SKU taking the place of an empty cell.
CellOrCodeOf(i) ==
    [k \in DOMAIN g_groups[i].variants |->
        IF RowOf(i, k).color # None THEN RowOf(i, k).color
        ELSE parse_sku(RowOf(i, k).sku).var]

\* The non-blank members of cells, trimmed, each once, in the order of first
\* occurrence.
DistinctTrimmed(cells) ==
    LET solid == KeepAt(cells, {k \in DOMAIN cells : NonBlank(cells[k])})
    IN FirstOccurrences([k \in DOMAIN solid |-> Strip(solid[k])])

\* C17 as stated: the colors of the product are the distinct non-blank
\* trimmed values of the color cells of its variants, in the order of first
\* occurrence; a variant whose color cell is blank adds nothing.
C17_AsStated ==
    \A i \in Processed :
        \A c \in ProductRequests(i) :
            c.data.colors = DistinctTrimmed(ColorCellsOf(i))

\* C17, amended: the colors of the product are the distinct non-blank trimmed
\* colors of its variants, in the order of first occurrence, where the color
\* of a variant is its color cell or, when that cell is empty, the variation
\* code of its SKU; a variant whose color is blank adds nothing.
C17_ColorsFromCellOrCode ==
    \A i \in Processed :
        \A c \in ProductRequests(i) :
            c.data.colors = DistinctTrimmed(CellOrCodeOf(i))

\* A product was sent whose rows have the color cells ' ROSE ', empty (with
\* the variation code 127) and 'ROSE': its colors are ROSE and 127.
C17_Witness ==
    \E i \in Processed :
        \E c \in ProductRequests(i) :
            /\ ColorCellsOf(i) = <<Chars(" ROSE "), None, Chars("ROSE")>>
            /\ c.data.colors = <<Chars("ROSE"), Chars("127")>>

-----------------------------------------------------------------------------
(* create_variations: C18 *)

\* The variation requests of the i-th call, in the order they were sent.
VariationSeq(i) ==
    KeepAt(g_net[i], {j \in DOMAIN g_net[i] :
                         g_net[i][j].to = "variations" /\ g_net[i][j].op # "GET"})

\* create_variations got as far as its loops in the i-th call.
VariationsFetched(i) ==
    \E c \in Range(g_net[i]) : c.to = "variations" /\ c.op = "GET" /\ c.ok

\* The final color list of the i-th call: the colors the product was sent
\* with; the single placeholder when the list is empty.
FinalColors(i) ==
    LET colors == UNION {Range(c.data.colors) : c \in ProductRequests(i)}
    IN IF colors = {} THEN {None} ELSE colors

\* The variants of the i-th group that are rows of the color.
RowsOfColor(i, color) ==
    {k \in DOMAIN g_groups[i].variants :
        NonBlank(CellOrCodeOf(i)[k]) /\ Strip(CellOrCodeOf(i)[k]) = color}

\* The size labels flagged in the rows ks of the i-th group.
SizesFlagged(i, ks) ==
    {SIZE_COLUMNS[col] : col \in {x \in DOMAIN SIZE_COLUMNS :
                                     \E k \in ks : IsFlagged(RowOf(i, k).sizes[x])}}

\* The sizes of a color: those flagged on its rows, the size union of the
\* group when there are none.
SizesOfColor(i, color) ==
    IF SizesFlagged(i, RowsOfColor(i, color)) # {}
    THEN SizesFlagged(i, RowsOfColor(i, color))
    ELSE SizesFlagged(i, DOMAIN g_groups[i].variants)

\* The price cell parses as a number.
Priced(i, k) == RowOf(i, k).price # None /\ IsDecimal(Strip(RowOf(i, k).price))

\* The price of a color, in hundredths: that of its first row with a price,
\* the group price when no row of the color has one; -1 when there is none.
PriceOfColor(i, color) ==
    LET priced == {k \in RowsOfColor(i, color) : Priced(i, k)}
    IN IF priced # {}
       THEN Round2(FloatOf(Strip(RowOf(i, Minimum(priced)).price)))
       ELSE IF ParsablePrices(i) # {} THEN Minimum(ParsablePrices(i))
       ELSE -1

\* The price a variation request carries, in hundredths; -1 when it is ''.
PriceSent(c) ==
    IF c.data.regular_price = <<>> THEN -1 ELSE PriceValue(c.data.regular_price)

\* C18 as stated: create_variations sends exactly one create-or-update
\* request for each pair of a color of the final color list (one placeholder
\* without color when the list is empty) and a size flagged on the rows of
\* that color (of the size union of the group when the color has no sizes);
\* no pair is sent twice, and each request carries the price of the color
\* when it has one, else the group price.
C18_AsStated ==
    \A i \in Processed :
        VariationsFetched(i) =>
            LET sent == VariationSeq(i)
            IN /\ {<<sent[j].data.color, sent[j].data.size>> : j \in DOMAIN sent}
                    = UNION {{<<color, size>> : size \in SizesOfColor(i, color)} :
                                color \in FinalColors(i)}
               /\ \A a, b \in DOMAIN sent :
                     /\ sent[a].data.color = sent[b].data.color
                     /\ sent[a].data.size = sent[b].data.size
                     => a = b
               /\ \A j \in DOMAIN sent :
                     PriceSent(sent[j]) = PriceOfColor(i, sent[j].data.color)

-----------------------------------------------------------------------------
(* sync_from_xlsx with dry_run: C19 *)

\* C19: with the dry-run flag set, whatever the groups and whatever the store
\* holds, no request that changes the store is sent: no product POST or PUT,
\* no variation POST or PUT, no media upload; the lookups are all there is.
C19_DryRunOnlyReads ==
    g_dry =>
        \A i \in DOMAIN g_net :
            \A c \in Range(g_net[i]) : c.op = "GET" /\ c.to = "products"

\* A dry run over two groups, with image folders and a product in the store,
\* has planned a product whose rows have images.
C19_Witness ==
    /\ g_dry
    /\ Len(g_net) >= 2
    /\ g_folder # <<>>
    /\ g_store # <<>>
    /\ \E e \in Range(g_created) : e.status = "dry_run"
    /\ \E i \in Processed :
          /\ EntriesFor(g_created, i) # {}
          /\ Projection(g_groups[i].variants, g_folder).images[1] # <<>>

-----------------------------------------------------------------------------
(* sync_from_xlsx when requests fail: C20 *)

\* The request is one whose failure raises in create_product_from_group: the
\* product POST or PUT, or the GET of the existing variations.
Raises(c) ==
    /\ ~c.ok
    /\ \/ c.to = "products" /\ c.op # "GET"
       \/ c.to = "variations" /\ c.op = "GET"

\* The number of groups the loop handles: all of them, or limit of them.
GroupsDue ==
    IF g_limit # 0 /\ g_limit < Len(g_groups) THEN g_limit ELSE Len(g_groups)

\* C20: when the product request or the fetch of the existing variations
\* fails for a group, the failure goes no further: the group is in the failed
\* bucket, once, with its base SKU and the text of the error, and the loop
\* still handles every later group up to the limit.
C20_FailureIsRecorded ==
    /\ \A i \in Processed :
          (\E c \in Range(g_net[i]) : Raises(c)) =>
              /\ Cardinality({k \in DOMAIN g_failed : g_failed[k].sku = g_calls[i]}) = 1
              /\ \A e \in EntriesFor(g_failed, i) : e.error \in {"products", "variations"}
              /\ EntriesFor(g_created, i) = {}
    /\ g_pc = "done" =>
          /\ Len(g_calls) = GroupsDue
          /\ \A i \in 1..GroupsDue : g_calls[i] = g_groups[i].base_sku

\* The run is over: the product request of one group failed, the fetch of
\* the variations of the next failed, and the group after them was created.
C20_Witness ==
    /\ g_pc = "done"
    /\ Len(g_calls) = 3
    /\ Len(g_failed) = 2
    /\ g_failed[1] = [sku |-> g_calls[1], error |-> "products"]
    /\ g_failed[2] = [sku |-> g_calls[2], error |-> "variations"]
    /\ \E e \in Range(g_created) : e.sku = g_calls[3]

-----------------------------------------------------------------------------
(* create_product_from_group without sizes: C21 *)

\* The entry of a group skipped for want of a size.
NoSizes(base_sku) == [sku |-> base_sku, reason |-> "no_sizes"]

\* The i-th call has changed nothing: its group is in the skipped bucket
\* once and in no other bucket, and its requests are lookups only.
SkippedUntouched(i) ==
    /\ Cardinality({k \in DOMAIN g_skipped : g_skipped[k].sku = g_calls[i]}) = 1
    /\ EntriesFor(g_created, i) = {}
    /\ EntriesFor(g_failed, i) = {}
    /\ \A c \in Range(g_net[i]) : c.op = "GET" /\ c.to = "products"

-----------------------------------------------------------------------------
(* The buckets of a run: C22 *)

\* The number of entries of the bucket for the group of the i-th call.
CountFor(bucket, i) == Cardinality({k \in DOMAIN bucket : bucket[k].sku = g_calls[i]})

\* C22: every processed group is recorded in exactly one of the buckets
\* created/updated, skipped and failed; the sizes of the three buckets add up
\* to the number of processed groups, and the success count is the size of
\* the created bucket. This holds after every group, so at the end of the
\* run too.
C22_BucketsPartition ==
    /\ \A i \in Processed :
          CountFor(g_created, i) + CountFor(g_skipped, i) + CountFor(g_failed, i) = 1
    /\ Len(g_created) + Len(g_skipped) + Len(g_failed) = Len(g_calls)
    /\ g_success = Len(g_created)

\* A live run over three groups is over with one group in each bucket.
C22_Witness ==
    /\ g_pc = "done"
    /\ ~g_dry
    /\ Len(g_calls) = 3
    /\ Len(g_created) = 1
    /\ Len(g_skipped) = 1
    /\ Len(g_failed) = 1
    /\ g_success = 1

-----------------------------------------------------------------------------
(* Two projections of one group: C23 *)

\* The size options of the product requests among calls.
SizeOptions(calls) ==
    {calls[j].data.sizes : j \in {x \in DOMAIN calls :
                                     calls[x].to = "products" /\ calls[x].op # "GET"}}

\* C23 as stated: projecting the same group against the same image index
\* twice gives the same result, with the size options in the same order and
\* the variation records of the (color, size) pairs in the same order; no
\* order depends on the iteration order of a set.
C23_AsStated ==
    (g_pc = "done" /\ Len(g_net) = 2) =>
        /\ SizeOptions(g_net[1]) = SizeOptions(g_net[2])
        /\ g_net[1] = g_net[2]

-----------------------------------------------------------------------------
(* normalize_sku: C24 *)

\* C24 as stated: the normalized key never holds a space; the words of a
\* variation are joined in the key ('WPJF 0012 BLUE MEDIUM' gives
\* 'WPJF0012-BLUEMEDIUM') while the variation returned keeps its spaces
\* ('BLUE MEDIUM').
C24_AsStated ==
    (n_res # NoNorm /\ n_res.normalized # None) =>
        /\ " " \notin Range(n_res.normalized)
        /\ n_sku = Chars("WPJF 0012 BLUE MEDIUM") =>
              /\ n_res.normalized = Chars("WPJF0012-BLUEMEDIUM")
              /\ n_res.variation = Chars("BLUE MEDIUM")

-----------------------------------------------------------------------------
(* scan_image_folders: C25 *)

\* C25 as stated: after the scan, the entry under a folder key holds the
\* image files of every directory whose name derives to that key (such as
\* 'WPJF001' and 'WPJF001 (1)'); no scanned file with an image extension is
\* missing from the index.
C25_AsStated ==
    s_pc = "done" =>
        \A i \in DOMAIN s_items :
            s_items[i].is_dir =>
                \A f \in Range(s_items[i].files) :
                    IsImage(f) =>
                        \E e \in Range(s_folders) :
                            /\ e.key = get_folder_key(s_items[i].name)
                            /\ [dir |-> s_items[i].name, file |-> f] \in Range(e.images)

-----------------------------------------------------------------------------
(* create_product_from_group and a product that is there: C26 *)

\* C26 as stated: in a run that is not dry, no product is created (POST
\* products) for a group while the store holds a product under the base SKU
\* of the group or under the raw SKU of one of its variants; the product is
\* updated or skipped, also when a lookup fails.
C26_AsStated ==
    [][LET i == Len(g_calls) + 1
       IN (/\ g_pc = "sync"
           /\ Len(g_calls') = i
           /\ ~g_dry
           /\ InStore(g_store, g_groups[i]))
          => \A c \in Range(g_net'[i]) : ~(c.to = "products" /\ c.op = "POST")]_vars

-----------------------------------------------------------------------------
(* group_rows_by_base_sku and normalize_sku: C27 *)

\* The group that holds the row idx, 0 when no group does.
GroupOfRow(idx) ==
    IF \E i \in DOMAIN g_groups : idx \in Range(RowIdxs(g_groups[i]))
    THEN CHOOSE i \in DOMAIN g_groups : idx \in Range(RowIdxs(g_groups[i]))
    ELSE 0

\* C27 as stated: two rows whose raw SKUs have the same base_sku under
\* normalize_sku, as 'WPJF 001-127' and 'WPJF001-130', which differ only in
\* the spacing inside the product code, are in the same group.
C27_AsStated ==
    g_pc # "group" =>
        \A a, b \in DOMAIN g_rows :
            (/\ HasBase(g_rows[a])
             /\ HasBase(g_rows[b])
             /\ normalize_sku(g_rows[a].sku).base_sku = normalize_sku(g_rows[b].sku).base_sku)
            => GroupOfRow(a) = GroupOfRow(b)

-----------------------------------------------------------------------------
(* find_images_for_sku, the prefix stage: C28 *)

\* C28 as stated: when find_images_for_sku returns images for a raw SKU that
\* has a product code, they lie in a folder whose name normalizes to the base
\* SKU of the raw SKU; the prefix stage never gives the folder of another
\* base code (folder 'WPJF0012-BLUE' for the SKU 'WPJF 001-999').
C28_AsStated ==
    (/\ r_pc = "done"
     /\ r_out # <<>>
     /\ ProductCode(Strip(r_sku)).ok)
    => \A img \in Range(r_out) :
          normalize_sku(img.dir).base_sku = normalize_sku(r_sku).base_sku

-----------------------------------------------------------------------------
(* The failed bucket and a product that was sent: C29 *)

\* C29 as stated: a group is in the failed bucket only if the run has
\* created or updated no product for it; once the product POST or PUT of a
\* group has succeeded, the group is recorded as created/updated, not as
\* failed.
C29_AsStated ==
    \A i \in Processed :
        (\E c \in ProductRequests(i) : c.ok) =>
            /\ EntriesFor(g_failed, i) = {}
            /\ EntriesFor(g_created, i) # {}

-----------------------------------------------------------------------------
(* The size options and the variation requests: C30 *)

\* C30 as stated: after a live projection whose product request succeeds,
\* every size among the Size options of the product is the size of at least
\* one variation create or update request, also for groups that mix rows
\* with a color and rows with neither a color nor a variation code.
C30_AsStated ==
    \A i \in Processed :
        ((\E c \in ProductRequests(i) : c.ok) /\ VariationsFetched(i)) =>
            \A c \in ProductRequests(i) :
                \A size \in Range(c.data.sizes) :
                    \E v \in VariationRequests(i) : v.data.size = size

=============================================================================
